---- MODULE Spec2Model ----
(***************************************************************************)
(* Model of the Competitive Analysis Generator server (server.js): the     *)
(* heuristic SWOT extractor, the A/B variant assignment, the metrics       *)
(* counters and the whole-file JSON persistence behind them.               *)
(*                                                                         *)
(* JavaScript strings are modelled as sequences of one-character strings,  *)
(* so that splitting, trimming, lower-casing and substring search are      *)
(* computed the way the code computes them.  The code point U+2011         *)
(* (non-breaking hyphen, used in one keyword of server.js) is the element  *)
(* "U2011".                                                                *)
(***************************************************************************)
EXTENDS Integers, Sequences, FiniteSets, TLC

(***************************************************************************)
(* Bounds of the model.                                                    *)
(***************************************************************************)
\* number of text fragments a generated description is built from
MaxParts == 3

\* views counted (variantA + variantB)
MaxViews == 3

\* conversions counted (conversionsA + conversionsB)
MaxConversions == 2

\* file writes that fail
MaxFaults == 1

\* process restarts
MaxRestarts == 1

\* registered users
MaxUsers == 2

\* session tokens generated
MaxTokens == 2

\* analyses created
MaxAnalyses == 1

\* clock steps
MaxTicks == 2

\* requests in flight at the same time
MaxInFlight == 2

\* characters of a request target after its leading slash
MaxPath == 7

(***************************************************************************)
(* String primitives (String.prototype.* as used by server.js).            *)
(***************************************************************************)
UpperCaseLetters ==
  <<"A", "B", "C", "D", "E", "F", "G", "H", "I", "J", "K", "L", "M",
    "N", "O", "P", "Q", "R", "S", "T", "U", "V", "W", "X", "Y", "Z">>

LowerCaseLetters ==
  <<"a", "b", "c", "d", "e", "f", "g", "h", "i", "j", "k", "l", "m",
    "n", "o", "p", "q", "r", "s", "t", "u", "v", "w", "x", "y", "z">>

\* the characters String.prototype.trim removes (those of the alphabet used)
WhiteSpace == {" ", "\t", "\n", "\r"}

\* the separators of the regular expression /[.!?;]/
SentenceSeparators == {".", "!", "?", ";"}

Range(s) == {s[i] : i \in 1..Len(s)}

toLowerCaseChar(c) ==
  IF \E i \in 1..26 : UpperCaseLetters[i] = c
    THEN LowerCaseLetters[CHOOSE i \in 1..26 : UpperCaseLetters[i] = c]
    ELSE c

\* sentence.toLowerCase()
toLowerCase(s) == [i \in 1..Len(s) |-> toLowerCaseChar(s[i])]

\* lower.includes(k)
includes(s, k) ==
  \E i \in 0..(Len(s) - Len(k)) : SubSeq(s, i + 1, i + Len(k)) = k

\* desc.replace(/\n/g, ' ')
replaceNewlines(s) == [i \in 1..Len(s) |-> IF s[i] = "\n" THEN " " ELSE s[i]]

\* s.split(/[.!?;]/): the pieces between separators, empty pieces included
RECURSIVE split(_)
split(s) ==
  IF \A i \in 1..Len(s) : s[i] \notin SentenceSeparators
    THEN <<s>>
    ELSE LET i == CHOOSE j \in 1..Len(s) :
                    /\ s[j] \in SentenceSeparators
                    /\ \A k \in 1..(j - 1) : s[k] \notin SentenceSeparators
         IN  <<SubSeq(s, 1, i - 1)>> \o split(SubSeq(s, i + 1, Len(s)))

\* s.trim()
trim(s) ==
  IF \A i \in 1..Len(s) : s[i] \in WhiteSpace
    THEN <<>>
    ELSE LET first == CHOOSE i \in 1..Len(s) :
                        /\ s[i] \notin WhiteSpace
                        /\ \A k \in 1..(i - 1) : s[k] \in WhiteSpace
             last  == CHOOSE i \in 1..Len(s) :
                        /\ s[i] \notin WhiteSpace
                        /\ \A k \in (i + 1)..Len(s) : s[k] \in WhiteSpace
         IN  SubSeq(s, first, last)

\* array.map(s => s.trim())
mapTrim(a) == [i \in 1..Len(a) |-> trim(a[i])]

\* array.filter(Boolean) on an array of strings: drops the empty strings
filterBoolean(a) == LET nonEmpty(x) == x # <<>> IN SelectSeq(a, nonEmpty)

(***************************************************************************)
(* The SWOT extractor: keyword lists and analyzeDescription.               *)
(***************************************************************************)
positiveKeywords ==
  << <<"f", "a", "s", "t">>,
     <<"e", "a", "s", "y">>,
     <<"p", "o", "p", "u", "l", "a", "r">>,
     <<"a", "f", "f", "o", "r", "d", "a", "b", "l", "e">>,
     <<"f", "l", "e", "x", "i", "b", "l", "e">>,
     <<"s", "c", "a", "l", "a", "b", "l", "e">>,
     <<"i", "n", "t", "u", "i", "t", "i", "v", "e">>,
     <<"e", "f", "f", "i", "c", "i", "e", "n", "t">>,
     <<"u", "s", "e", "r", "U2011", "f", "r", "i", "e", "n", "d", "l", "y">> >>

negativeKeywords ==
  << <<"e", "x", "p", "e", "n", "s", "i", "v", "e">>,
     <<"s", "l", "o", "w">>,
     <<"b", "u", "g">>,
     <<"b", "u", "g", "s">>,
     <<"c", "o", "m", "p", "l", "i", "c", "a", "t", "e", "d">>,
     <<"c", "o", "m", "p", "l", "e", "x">>,
     <<"l", "i", "m", "i", "t", "e", "d">>,
     <<"d", "i", "f", "f", "i", "c", "u", "l", "t">>,
     <<"u", "n", "r", "e", "l", "i", "a", "b", "l", "e">> >>

strengthsFallbackText ==
  <<" ", "i", "s", " ", "p", "o", "s", "i", "t", "i", "o", "n", "e", "d", " ", "t", "o",
       " ", "d", "e", "l", "i", "v", "e", "r", " ", "v", "a", "l", "u", "e", " ", "t",
       "o", " ", "i", "t", "s", " ", "u", "s", "e", "r", "s", " ", "w", "i", "t", "h",
       " ", "p", "r", "o", "p", "e", "r", " ", "e", "x", "e", "c", "u", "t", "i", "o",
       "n", ".">>

weaknessesFallbackText ==
  <<" ", "m", "a", "y", " ", "f", "a", "c", "e", " ", "c", "h", "a", "l", "l", "e", "n",
       "g", "e", "s", " ", "a", "r", "o", "u", "n", "d", " ", "c", "o", "s", "t", ",",
       " ", "s", "p", "e", "e", "d", " ", "o", "r", " ", "c", "o", "m", "p", "l", "e",
       "x", "i", "t", "y", " ", "t", "h", "a", "t", " ", "n", "e", "e", "d", " ", "t",
       "o", " ", "b", "e", " ", "a", "d", "d", "r", "e", "s", "s", "e", "d", ".">>

opportunity1Head ==
  <<"T", "h", "e", "r", "e", " ", "i", "s", " ", "r", "o", "o", "m", " ", "f", "o", "r",
       " ">>

opportunity1Tail ==
  <<" ", "t", "o", " ", "e", "x", "p", "a", "n", "d", " ", "i", "n", "t", "o", " ", "a",
       "d", "j", "a", "c", "e", "n", "t", " ", "m", "a", "r", "k", "e", "t", "s", " ",
       "o", "r", " ", "a", "d", "d", " ", "c", "o", "m", "p", "l", "e", "m", "e", "n",
       "t", "a", "r", "y", " ", "f", "e", "a", "t", "u", "r", "e", "s", ".">>

opportunity2Head ==
  <<"L", "e", "v", "e", "r", "a", "g", "i", "n", "g", " ", "n", "e", "w", " ", "t", "e",
       "c", "h", "n", "o", "l", "o", "g", "i", "e", "s", " ", "s", "u", "c", "h", " ",
       "a", "s", " ", "A", "I", " ", "c", "o", "u", "l", "d", " ", "o", "p", "e", "n",
       " ", "u", "p", " ", "d", "i", "f", "f", "e", "r", "e", "n", "t", "i", "a", "t",
       "i", "o", "n", " ", "f", "o", "r", " ">>

opportunity2Tail ==
  <<".">>

threat1Head ==
  <<"C", "o", "m", "p", "e", "t", "i", "t", "o", "r", "s", " ", "w", "i", "t", "h", " ",
       "m", "o", "r", "e", " ", "r", "e", "s", "o", "u", "r", "c", "e", "s", " ", "c",
       "o", "u", "l", "d", " ", "o", "u", "t", "p", "a", "c", "e", " ">>

threat1Tail ==
  <<" ", "i", "n", " ", "p", "r", "o", "d", "u", "c", "t", " ", "d", "e", "v", "e", "l",
       "o", "p", "m", "e", "n", "t", ".">>

threat2Head ==
  <<"R", "e", "g", "u", "l", "a", "t", "o", "r", "y", " ", "o", "r", " ", "m", "a", "r",
       "k", "e", "t", " ", "c", "h", "a", "n", "g", "e", "s", " ", "c", "o", "u", "l",
       "d", " ", "i", "m", "p", "a", "c", "t", " ">>

threat2Tail ==
  <<"'", "s", " ", "g", "r", "o", "w", "t", "h", " ", "p", "r", "o", "s", "p", "e", "c",
       "t", "s", ".">>

UnnamedCompetitor ==
  <<"U", "n", "n", "a", "m", "e", "d", " ", "c", "o", "m", "p", "e", "t", "i", "t", "o",
       "r">>

SpecExampleDescription ==
  <<"T", "h", "i", "s", " ", "t", "o", "o", "l", " ", "i", "s", " ", "f", "a", "s", "t",
       " ", "a", "n", "d", " ", "a", "f", "f", "o", "r", "d", "a", "b", "l", "e", ".",
       " ", "H", "o", "w", "e", "v", "e", "r", " ", "i", "t", " ", "i", "s", " ", "e",
       "x", "p", "e", "n", "s", "i", "v", "e", ".">>

\* faulty variant: the message names no competitor in particular
strengthsFallback_unnamed(name) == UnnamedCompetitor \o strengthsFallbackText

\* `${name} is positioned to deliver value to its users with proper execution.`
strengthsFallback(name) == name \o strengthsFallbackText

\* `${name} may face challenges around cost, speed or complexity ...`
weaknessesFallback(name) == name \o weaknessesFallbackText

\* positiveKeywords.some(k => lower.includes(k))
hasPositive(sentence) ==
  LET lower == toLowerCase(sentence)
  IN  \E i \in 1..Len(positiveKeywords) : includes(lower, positiveKeywords[i])

\* negativeKeywords.some(k => lower.includes(k))
hasNegative(sentence) ==
  LET lower == toLowerCase(sentence)
  IN  \E i \in 1..Len(negativeKeywords) : includes(lower, negativeKeywords[i])

\* desc.replace(/\n/g, ' ').split(/[.!?;]/).map(s => s.trim()).filter(Boolean)
sentencesOf(desc) == filterBoolean(mapTrim(split(replaceNewlines(desc))))

\* faulty variant: no generic message is supplied for an empty list
analyzeDescription_noFallback(desc, name) ==
  LET sentences == sentencesOf(desc)
  IN  [ strengths     |-> SelectSeq(sentences, hasPositive),
        weaknesses    |-> SelectSeq(sentences, hasNegative),
        opportunities |-> << opportunity1Head \o name \o opportunity1Tail,
                             opportunity2Head \o name \o opportunity2Tail >>,
        threats       |-> << threat1Head \o name \o threat1Tail,
                             threat2Head \o name \o threat2Tail >> ]

\* faulty variant: "else if (hasNegative)", a sentence goes to one list at most
analyzeDescription_exclusive(desc, name) ==
  LET sentences  == sentencesOf(desc)
      onlyNegative(s) == hasNegative(s) /\ ~hasPositive(s)
      strengths  == SelectSeq(sentences, hasPositive)
      weaknesses == SelectSeq(sentences, onlyNegative)
  IN  [ strengths     |-> IF Len(strengths) = 0
                            THEN <<strengthsFallback(name)>>
                            ELSE strengths,
        weaknesses    |-> IF Len(weaknesses) = 0
                            THEN <<weaknessesFallback(name)>>
                            ELSE weaknesses,
        opportunities |-> << opportunity1Head \o name \o opportunity1Tail,
                             opportunity2Head \o name \o opportunity2Tail >>,
        threats       |-> << threat1Head \o name \o threat1Tail,
                             threat2Head \o name \o threat2Tail >> ]

\* faulty variant: strengths.push(lower), weaknesses.push(lower)
analyzeDescription_pushesLower(desc, name) ==
  LET sentences  == sentencesOf(desc)
      lowered(a) == [i \in 1..Len(a) |-> toLowerCase(a[i])]
      strengths  == lowered(SelectSeq(sentences, hasPositive))
      weaknesses == lowered(SelectSeq(sentences, hasNegative))
  IN  [ strengths     |-> IF Len(strengths) = 0
                            THEN <<strengthsFallback(name)>>
                            ELSE strengths,
        weaknesses    |-> IF Len(weaknesses) = 0
                            THEN <<weaknessesFallback(name)>>
                            ELSE weaknesses,
        opportunities |-> << opportunity1Head \o name \o opportunity1Tail,
                             opportunity2Head \o name \o opportunity2Tail >>,
        threats       |-> << threat1Head \o name \o threat1Tail,
                             threat2Head \o name \o threat2Tail >> ]

\* faulty variant: the second threat is added only when a weakness was found
analyzeDescription_keywordThreats(desc, name) ==
  LET sentences  == sentencesOf(desc)
      strengths  == SelectSeq(sentences, hasPositive)
      weaknesses == SelectSeq(sentences, hasNegative)
  IN  [ strengths     |-> IF Len(strengths) = 0
                            THEN <<strengthsFallback(name)>>
                            ELSE strengths,
        weaknesses    |-> IF Len(weaknesses) = 0
                            THEN <<weaknessesFallback(name)>>
                            ELSE weaknesses,
        opportunities |-> << opportunity1Head \o name \o opportunity1Tail,
                             opportunity2Head \o name \o opportunity2Tail >>,
        threats       |-> IF Len(weaknesses) = 0
                            THEN << threat1Head \o name \o threat1Tail >>
                            ELSE << threat1Head \o name \o threat1Tail,
                                    threat2Head \o name \o threat2Tail >> ]

analyzeDescription(desc, name) ==
  LET sentences  == sentencesOf(desc)
      strengths  == SelectSeq(sentences, hasPositive)
      weaknesses == SelectSeq(sentences, hasNegative)
  IN  [ strengths     |-> IF Len(strengths) = 0
                            THEN <<strengthsFallback(name)>>
                            ELSE strengths,
        weaknesses    |-> IF Len(weaknesses) = 0
                            THEN <<weaknessesFallback(name)>>
                            ELSE weaknesses,
        opportunities |-> << opportunity1Head \o name \o opportunity1Tail,
                             opportunity2Head \o name \o opportunity2Tail >>,
        threats       |-> << threat1Head \o name \o threat1Tail,
                             threat2Head \o name \o threat2Tail >> ]

(***************************************************************************)
(* Inputs of the extractor: descriptions are concatenations of at most     *)
(* MaxParts fragments, so that keywords in either letter case, separators, *)
(* newlines and surrounding blanks all occur.                              *)
(***************************************************************************)
Fragments ==
  { <<"F", "a", "s", "t">>, <<"e", "a", "s", "y">>, <<"s", "l", "o", "w">>,
    <<"B", "U", "G">>, <<"o", "k">>, <<" ">>, <<"\n">>, <<".">>, <<"!">>,
    <<";", " ">>,
    <<"u", "s", "e", "r", "-", "f", "r", "i", "e", "n", "d", "l", "y">> }

RECURSIVE Concat(_)
Concat(parts) ==
  IF parts = <<>> THEN <<>> ELSE Head(parts) \o Concat(Tail(parts))

DescriptionInputs ==
  { Concat(parts) : parts \in UNION { [1..n -> Fragments] : n \in 0..MaxParts } }
    \cup { SpecExampleDescription }

NameInputs == { <<"A", "c", "m", "e">>, UnnamedCompetitor }

NotAnalyzed == [strengths |-> <<>>, weaknesses |-> <<>>,
                opportunities |-> <<>>, threats |-> <<>>]

(***************************************************************************)
(* JSON values, as JSON.parse produces them and the handlers inspect them. *)
(***************************************************************************)
Undefined == [type |-> "undefined"]

JNull == [type |-> "null"]

JString(s) == [type |-> "string", value |-> s]

JNumber(n) == [type |-> "number", value |-> n]

JArray(a) == [type |-> "array", items |-> a]

JObject(f) == [type |-> "object", fields |-> f]

\* JavaScript truthiness (the operands of &&, || and !)
truthy(v) ==
  CASE v.type \in {"undefined", "null"} -> FALSE
    [] v.type = "string" -> v.value # <<>>
    [] v.type = "number" -> v.value # 0
    [] OTHER -> TRUE

\* v.key raises a TypeError exactly when v is null or undefined
propertyThrows(v) == v.type \in {"undefined", "null"}

\* v.key for an own data property of a parsed JSON value
property(v, key) ==
  IF v.type = "object" /\ key \in DOMAIN v.fields
    THEN v.fields[key]
    ELSE Undefined

\* a request body: no bytes at all, text that is not JSON, or the text of
\* the JSON value `value`
EmptyBody == [text |-> "empty", value |-> Undefined]

InvalidBody == [text |-> "invalid", value |-> Undefined]

JsonBody(v) == [text |-> "json", value |-> v]

\* JSON.parse(text): either throws a SyntaxError (ok = FALSE) or yields a value
JSONparse(body) ==
  IF body.text = "json"
    THEN [ok |-> TRUE, value |-> body.value]
    ELSE [ok |-> FALSE, value |-> Undefined]

\* body || '{}'
bodyOrEmptyObject(body) ==
  IF body.text = "empty" THEN JsonBody(JObject(<<>>)) ELSE body

(***************************************************************************)
(* Files.  A file is absent or holds the value last written to it.         *)
(***************************************************************************)
Absent == [exists |-> FALSE]

File(content) == [exists |-> TRUE, content |-> content]

\* faulty variant: the write is put off
writeFile_deferred(file, data, ok) == file

\* fs.writeFileSync(path, JSON.stringify(data)): the whole file is replaced
\* when the write succeeds and is left as it was when it fails
writeFile(file, data, ok) == IF ok THEN File(data) ELSE file

MetricsKeys == {"variantA", "variantB", "conversionsA", "conversionsB"}

ZeroMetrics == [variantA |-> 0, variantB |-> 0, conversionsA |-> 0, conversionsB |-> 0]

\* faulty variant: the counters start from zero whatever the file holds
initMetrics_zeros(file) == ZeroMetrics

\* initMetrics: zeros, overridden by every numeric key of an existing file
initMetrics(file) ==
  IF file.exists
    THEN [key \in MetricsKeys |->
            IF key \in DOMAIN file.content THEN file.content[key] ELSE 0]
    ELSE ZeroMetrics

\* readJson(path, defaultValue)
readJson(file, defaultValue) == IF file.exists THEN file.content ELSE defaultValue

(***************************************************************************)
(* Passwords, sessions.                                                    *)
(***************************************************************************)
\* crypto.pbkdf2Sync(password, salt, ...): the same (password, salt) gives the
\* same hash, different ones give different hashes
hashPassword(password, salt) == [salt |-> salt, hash |-> <<"pbkdf2", password, salt>>]

\* faulty variant: every password is accepted
verifyPassword_any(password, salt, hash) == TRUE

verifyPassword(password, salt, hash) == hashPassword(password, salt).hash = hash

\* 7 * 24 * 60 * 60 * 1000
maxAge == 604800000

(***************************************************************************)
(* Handler helpers.                                                        *)
(***************************************************************************)
\* faulty variant: Math.random() <= 0.5 ? 'A' : 'B'
variantOf_inclusive(draw) == IF draw <= 50 THEN "A" ELSE "B"

\* Math.random() < 0.5 ? 'A' : 'B', the draw given in hundredths
variantOf(draw) == IF draw < 50 THEN "A" ELSE "B"

\* faulty variant: the view is counted for the other variant
recordView_other(m, variant) ==
  IF variant = "A"
    THEN [m EXCEPT !.variantB = @ + 1]
    ELSE [m EXCEPT !.variantA = @ + 1]

\* faulty variant: every view is counted for A
recordView_alwaysA(m, variant) == [m EXCEPT !.variantA = @ + 1]

\* if (variant === 'A') metrics.variantA++; else metrics.variantB++;
recordView(m, variant) ==
  IF variant = "A"
    THEN [m EXCEPT !.variantA = @ + 1]
    ELSE [m EXCEPT !.variantB = @ + 1]

\* faulty variant: if (variant === 'A') metrics.conversionsA++; else metrics.conversionsB++;
recordConversion_elseB(m, variant) ==
  IF variant.type = "string" /\ variant.value = <<"A">>
    THEN [m EXCEPT !.conversionsA = @ + 1]
    ELSE [m EXCEPT !.conversionsB = @ + 1]

\* faulty variant: the two branches count for each other's variant
recordConversion_swapped(m, variant) ==
  IF variant.type = "string" /\ variant.value = <<"A">>
    THEN [m EXCEPT !.conversionsB = @ + 1]
    ELSE IF variant.type = "string" /\ variant.value = <<"B">>
           THEN [m EXCEPT !.conversionsA = @ + 1]
           ELSE m

\* if (variant === 'A') metrics.conversionsA++;
\* else if (variant === 'B') metrics.conversionsB++;
recordConversion(m, variant) ==
  IF variant.type = "string" /\ variant.value = <<"A">>
    THEN [m EXCEPT !.conversionsA = @ + 1]
    ELSE IF variant.type = "string" /\ variant.value = <<"B">>
           THEN [m EXCEPT !.conversionsB = @ + 1]
           ELSE m

\* Array.isArray(data.competitors) ? data.competitors : []
competitorsOf(data) ==
  LET c == property(data, "competitors")
  IN  IF c.type = "array" THEN c.items ELSE <<>>

\* (comp && comp.name) || 'Unnamed competitor'
nameOf(comp) ==
  LET n == IF truthy(comp) THEN property(comp, "name") ELSE comp
  IN  IF truthy(n) THEN n ELSE JString(UnnamedCompetitor)

\* (comp && comp.description) || ''
descriptionOf(comp) ==
  LET d == IF truthy(comp) THEN property(comp, "description") ELSE comp
  IN  IF truthy(d) THEN d ELSE JString(<<>>)

\* analyzeDescription calls desc.replace, which only a string has
analyzeThrows(comp) == descriptionOf(comp).type # "string"

\* faulty variant: the results come out in reverse order
resultsOf_reversed(competitors) ==
  [i \in 1..Len(competitors) |->
     [ name |-> nameOf(competitors[Len(competitors) + 1 - i]).value,
       swot |-> analyzeDescription(
                  descriptionOf(competitors[Len(competitors) + 1 - i]).value,
                  nameOf(competitors[Len(competitors) + 1 - i]).value) ]]

\* competitors.map(comp => ({ name, swot: analyzeDescription(description, name) }))
resultsOf(competitors) ==
  [i \in 1..Len(competitors) |->
     [ name |-> nameOf(competitors[i]).value,
       swot |-> analyzeDescription(descriptionOf(competitors[i]).value,
                                   nameOf(competitors[i]).value) ]]

\* the body makes the generation callback raise a TypeError: data is null
\* (data.competitors), or a description is truthy and not a string
generateThrows(data) ==
  \/ propertyThrows(data)
  \/ \E i \in 1..Len(competitorsOf(data)) : analyzeThrows(competitorsOf(data)[i])

(***************************************************************************)
(* Inputs of the requests.                                                 *)
(***************************************************************************)
\* the values of Math.random() tried, in hundredths
RandomDraws == {0, 49, 50, 99}

Competitor(n, d) == JObject([name |-> n, description |-> d])

AcmeDescription ==
  <<"F", "a", "s", "t", ".", " ", "s", "l", "o", "w", " ", "U", "I">>

\* the bodies sent to POST /api/generate and POST /api/analysis
GenerationBodies ==
  { EmptyBody,
    InvalidBody,
    JsonBody(JNull),
    JsonBody(JObject([competitors |-> JString(<<"x">>)])),
    JsonBody(JObject([competitors |->
       JArray(<< JNull,
                 JObject([name |-> JString(<<>>)]),
                 Competitor(JString(<<"A", "c", "m", "e">>),
                            JString(AcmeDescription)) >>)])),
    JsonBody(JObject([competitors |->
       JArray(<< Competitor(JString(<<"A", "c", "m", "e">>), JNumber(5)) >>)])) }

\* the bodies sent to POST /api/convert
ConvertBodies ==
  { EmptyBody,
    InvalidBody,
    JsonBody(JNull),
    JsonBody(JObject([variant |-> JString(<<"A">>)])),
    JsonBody(JObject([variant |-> JString(<<"B">>)])),
    JsonBody(JObject([variant |-> JString(<<"X">>)])) }

Alice == <<"a", "l", "i", "c", "e">>

Bob == <<"b", "o", "b">>

Password1 == <<"p", "w", "1">>

Password2 == <<"p", "w", "2">>

Credentials(u, p) == JsonBody(JObject([username |-> JString(u), password |-> JString(p)]))

\* the bodies sent to POST /api/register
RegisterBodies ==
  { EmptyBody,
    InvalidBody,
    JsonBody(JNull),
    JsonBody(JObject([username |-> JString(Alice)])),
    Credentials(Alice, Password1),
    Credentials(Bob, Password1) }

\* the bodies sent to POST /api/login
LoginBodies == RegisterBodies \cup { Credentials(Alice, Password2) }

\* crypto.randomBytes(16).toString('hex')
Salts == {"5a17"}

\* the Authorization header: 0 is no usable header (getTokenFromHeader gives
\* null), n > 0 is "Bearer <the n-th token generateToken produced>", issued
\* already or not
HeaderTokens == 0..MaxTokens

\* the :id of /api/analysis/:id
RequestIds == 1..MaxAnalyses

\* how far the clock moves between two requests
ClockSteps == {1, maxAge - 1}

(***************************************************************************)
(* State.                                                                  *)
(***************************************************************************)
VARIABLES
  metrics,       \* let metrics: the four counters in memory
  users,         \* let users: array of { id, username, passwordHash, salt }
  sessions,      \* let sessions: token -> { userId, createdAt }
  analyses,      \* let analyses: array of stored analyses
  metricsFile,   \* metrics.json
  usersFile,     \* users.json
  sessionsFile,  \* sessions.json
  analysesFile,  \* analyses.json
  now,           \* Date.now()
  nextToken,     \* number of tokens generateToken has produced, plus one
  nextUserId,    \* number of user ids crypto.randomUUID has produced, plus one
  nextAnalysisId,\* number of analysis ids crypto.randomUUID has produced, plus one
  running,       \* the process is up (FALSE after an uncaught exception)
  boots,         \* number of process starts after the first
  faults,        \* number of file writes that have failed
  req,           \* the last request handled
  res,           \* the response sent for it
  desc,          \* the description handed to analyzeDescription
  name,          \* the display name handed to analyzeDescription
  swot,          \* the value it returned
  called,        \* whether analyzeDescription has been applied to (desc, name)
  inflight,      \* requests whose body has not been read to its end yet, in order of arrival
  acked,         \* number of analyses and of conversions acknowledged so far
  localStorage,  \* the browser's localStorage: auth_token and swot_variant
  dataVariant,   \* data-variant of the page that embeds the integration script
  shown          \* the variant the browser used last, to render or to report

memoryVars == <<metrics, users, sessions, analyses>>

fileVars == <<metricsFile, usersFile, sessionsFile, analysesFile>>

authVars == <<users, sessions, analyses, usersFile, sessionsFile, analysesFile,
              nextToken, nextUserId, nextAnalysisId>>

serverVars == <<metrics, users, sessions, analyses,
                metricsFile, usersFile, sessionsFile, analysesFile,
                now, nextToken, nextUserId, nextAnalysisId,
                running, boots, faults, req, res>>

swotVars == <<desc, name, swot, called>>

inflightVars == <<inflight, acked>>

clientVars == <<localStorage, dataVariant, shown>>

vars == <<metrics, users, sessions, analyses,
          metricsFile, usersFile, sessionsFile, analysesFile,
          now, nextToken, nextUserId, nextAnalysisId,
          running, boots, faults, req, res,
          desc, name, swot, called,
          inflight, acked, localStorage, dataVariant, shown>>

NoRequest == [op |-> "none", token |-> 0, id |-> 0, body |-> EmptyBody]

Request(op, body) == [op |-> op, token |-> 0, id |-> 0, body |-> body]

AuthRequest(op, token, id, body) == [op |-> op, token |-> token, id |-> id, body |-> body]

\* no response reaches the caller
NoResponse == [status |-> 0]

\* sendJson(res, statusCode, data)
sendJson(statusCode, data) == [status |-> statusCode, body |-> data]

\* the outcomes of one file write: it succeeds, or fails while the bound on
\* failed writes allows
WriteOutcomes == {TRUE} \cup (IF faults < MaxFaults THEN {FALSE} ELSE {})

\* the server after its first start in an empty directory
InitServer ==
  /\ metrics = initMetrics(Absent)
  /\ metricsFile = File(ZeroMetrics)
  /\ users = readJson(Absent, <<>>)
  /\ usersFile = File(<<>>)
  /\ sessions = readJson(Absent, <<>>)
  /\ sessionsFile = File(<<>>)
  /\ analyses = readJson(Absent, <<>>)
  /\ analysesFile = File(<<>>)
  /\ now = 0
  /\ nextToken = 1
  /\ nextUserId = 1
  /\ nextAnalysisId = 1
  /\ running = TRUE
  /\ boots = 0
  /\ faults = 0
  /\ req = NoRequest
  /\ res = NoResponse

SwotIdle ==
  /\ desc = <<>>
  /\ name = UnnamedCompetitor
  /\ swot = NotAnalyzed
  /\ called = FALSE

\* no request is in flight
NoneInFlight ==
  /\ inflight = <<>>
  /\ acked = [created |-> 0, converted |-> 0]

\* a browser that has not visited yet
ClientIdle ==
  /\ localStorage = [auth_token |-> 0, swot_variant |-> ""]
  /\ dataVariant = ""
  /\ shown = ""

Init == InitServer /\ SwotIdle /\ NoneInFlight /\ ClientIdle

\* an exception nobody catches ends the process: no response is sent
uncaughtException ==
  /\ running' = FALSE
  /\ res' = NoResponse

(***************************************************************************)
(* Request handlers.                                                       *)
(***************************************************************************)
\* GET /api/variant
handleVariant(draw) ==
  /\ running
  /\ metrics.variantA + metrics.variantB < MaxViews
  /\ req' = Request("variant", EmptyBody)
  /\ metrics' = recordView(metrics, variantOf(draw))
  /\ \E ok \in WriteOutcomes :
        /\ metricsFile' = writeFile(metricsFile, metrics', ok)
        /\ faults' = IF ok THEN faults ELSE faults + 1
        \* fs.writeFileSync is not inside a try block here
        /\ IF ok
             THEN /\ res' = sendJson(200, [variant |-> variantOf(draw)])
                  /\ UNCHANGED running
             ELSE uncaughtException
  /\ UNCHANGED <<boots, now>>
  /\ UNCHANGED authVars

\* faulty variant: the generated analysis is stored, without an owner
handleGenerate_saves(body, draw) ==
  /\ running
  /\ req' = Request("generate", body)
  /\ LET parsed == JSONparse(body)
         data   == parsed.value
     IN  IF ~parsed.ok
           THEN /\ res' = sendJson(400, [error |-> "Invalid JSON"])
                /\ UNCHANGED <<metrics, metricsFile, running, faults, analyses>>
           ELSE IF generateThrows(data)
             THEN /\ uncaughtException
                  /\ UNCHANGED <<metrics, metricsFile, faults, analyses>>
             ELSE /\ metrics.variantA + metrics.variantB < MaxViews
                  /\ metrics' = recordView(metrics, variantOf(draw))
                  /\ analyses' = Append(analyses,
                                        [ id          |-> 0,
                                          userId      |-> 0,
                                          timestamp   |-> now,
                                          competitors |-> competitorsOf(data),
                                          results     |-> resultsOf(competitorsOf(data)),
                                          variant     |-> variantOf(draw) ])
                  /\ \E ok \in WriteOutcomes :
                        /\ metricsFile' = writeFile(metricsFile, metrics', ok)
                        /\ faults' = IF ok THEN faults ELSE faults + 1
                        /\ IF ok
                             THEN /\ res' = sendJson(200,
                                        [ variant |-> variantOf(draw),
                                          results |-> resultsOf(competitorsOf(data)) ])
                                  /\ UNCHANGED running
                             ELSE uncaughtException
  /\ UNCHANGED <<boots, now>>
  /\ UNCHANGED <<users, sessions, usersFile, sessionsFile, analysesFile,
                 nextToken, nextUserId, nextAnalysisId>>

\* POST /api/generate
handleGenerate(body, draw) ==
  /\ running
  /\ req' = Request("generate", body)
  /\ LET parsed == JSONparse(body)
         data   == parsed.value
     IN  IF ~parsed.ok
           THEN /\ res' = sendJson(400, [error |-> "Invalid JSON"])
                /\ UNCHANGED <<metrics, metricsFile, running, faults>>
           ELSE IF generateThrows(data)
             THEN /\ uncaughtException
                  /\ UNCHANGED <<metrics, metricsFile, faults>>
             ELSE /\ metrics.variantA + metrics.variantB < MaxViews
                  /\ metrics' = recordView(metrics, variantOf(draw))
                  /\ \E ok \in WriteOutcomes :
                        /\ metricsFile' = writeFile(metricsFile, metrics', ok)
                        /\ faults' = IF ok THEN faults ELSE faults + 1
                        \* fs.writeFileSync is not inside a try block here
                        /\ IF ok
                             THEN /\ res' = sendJson(200,
                                        [ variant |-> variantOf(draw),
                                          results |-> resultsOf(competitorsOf(data)) ])
                                  /\ UNCHANGED running
                             ELSE uncaughtException
  /\ UNCHANGED <<boots, now>>
  /\ UNCHANGED authVars

\* GET /api/metrics
handleMetrics ==
  /\ running
  /\ req' = Request("metrics", EmptyBody)
  /\ res' = sendJson(200, metrics)
  /\ UNCHANGED <<metrics, metricsFile, running, boots, faults, now>>
  /\ UNCHANGED authVars

\* POST /api/convert: the whole callback body is inside try/catch
handleConvert(body) ==
  /\ running
  /\ req' = Request("convert", body)
  /\ LET parsed == JSONparse(bodyOrEmptyObject(body))
     IN  IF ~parsed.ok \/ propertyThrows(parsed.value)
           THEN /\ res' = sendJson(400, [error |-> "Invalid JSON payload"])
                /\ UNCHANGED <<metrics, metricsFile, faults>>
           ELSE /\ metrics' = recordConversion(metrics, property(parsed.value, "variant"))
                /\ metrics'.conversionsA + metrics'.conversionsB <= MaxConversions
                /\ \E ok \in WriteOutcomes :
                      /\ metricsFile' = writeFile(metricsFile, metrics', ok)
                      /\ faults' = IF ok THEN faults ELSE faults + 1
                      \* the catch block also catches the error of the write
                      /\ res' = IF ok
                                  THEN sendJson(200, metrics')
                                  ELSE sendJson(400, [error |-> "Invalid JSON payload"])
  /\ UNCHANGED <<running, boots, now>>
  /\ UNCHANGED authVars

(***************************************************************************)
(* Sessions: getUserIdFromToken.  The user id 0 stands for null.           *)
(***************************************************************************)
\* faulty variant: now - sess.createdAt <= maxAge
sessionValid_inclusive(token) ==
  /\ token # 0
  /\ token \in DOMAIN sessions
  /\ now - sessions[token].createdAt <= maxAge

\* sess && now - sess.createdAt < maxAge
sessionValid(token) ==
  /\ token # 0
  /\ token \in DOMAIN sessions
  /\ now - sessions[token].createdAt < maxAge

\* the token has an entry, and the entry is too old
sessionExpired(token) ==
  /\ token # 0
  /\ token \in DOMAIN sessions
  /\ ~(now - sessions[token].createdAt < maxAge)

\* the value getUserIdFromToken returns
getUserIdFromToken(token) ==
  IF sessionValid(token) THEN sessions[token].userId ELSE 0

\* faulty variant: every entry is dropped with the expired one
deleteSession_all(s, token) == <<>>

\* delete sessions[token]
deleteSession(s, token) == [t \in DOMAIN s \ {token} |-> s[t]]

\* sessions[token] = { userId, createdAt: Date.now() }
putSession(s, token, userId) ==
  [t \in DOMAIN s \cup {token} |->
     IF t = token THEN [userId |-> userId, createdAt |-> now] ELSE s[t]]

\* the path of an authenticated handler on which getUserIdFromToken returns
\* null: an expired entry is deleted and sessions.json rewritten (writeJson
\* swallows a failure), then 401 is sent
Unauthorized(token) ==
  /\ getUserIdFromToken(token) = 0
  /\ IF sessionExpired(token)
       THEN /\ sessions' = deleteSession(sessions, token)
            /\ \E ok \in WriteOutcomes :
                  /\ sessionsFile' = writeFile(sessionsFile, sessions', ok)
                  /\ faults' = IF ok THEN faults ELSE faults + 1
       ELSE UNCHANGED <<sessions, sessionsFile, faults>>
  /\ res' = sendJson(401, [error |-> "Unauthorized"])

\* the outcomes of two file writes of one handler
WriteOutcomes2 ==
  {oks \in BOOLEAN \X BOOLEAN :
     faults + Cardinality({i \in 1..2 : ~oks[i]}) <= MaxFaults}

\* number of writes that failed
Failures(oks) == Cardinality({i \in 1..2 : ~oks[i]})

(***************************************************************************)
(* Accounts.                                                               *)
(***************************************************************************)
\* users.some(u => u.username === username)
userExists(username) == \E i \in 1..Len(users) : users[i].username = username

\* POST /api/register
handleRegister(body, salt) ==
  /\ running
  /\ req' = Request("register", body)
  /\ LET parsed   == JSONparse(bodyOrEmptyObject(body))
         data     == parsed.value
         username == property(data, "username")
         password == property(data, "password")
         user     == [ id           |-> nextUserId,
                       username     |-> username.value,
                       passwordHash |-> hashPassword(password.value, salt).hash,
                       salt         |-> salt ]
     IN  IF ~parsed.ok
           THEN /\ res' = sendJson(400, [error |-> "Invalid JSON"])
                /\ UNCHANGED <<users, usersFile, sessions, sessionsFile, faults,
                               nextToken, nextUserId, running>>
           ELSE IF propertyThrows(data)
             THEN /\ uncaughtException
                  /\ UNCHANGED <<users, usersFile, sessions, sessionsFile, faults,
                                 nextToken, nextUserId>>
             ELSE IF ~truthy(username) \/ ~truthy(password)
               THEN /\ res' = sendJson(400, [error |-> "Username and password required"])
                    /\ UNCHANGED <<users, usersFile, sessions, sessionsFile, faults,
                                   nextToken, nextUserId, running>>
               ELSE IF userExists(username.value)
                 THEN /\ res' = sendJson(409, [error |-> "User already exists"])
                      /\ UNCHANGED <<users, usersFile, sessions, sessionsFile, faults,
                                     nextToken, nextUserId, running>>
                 ELSE /\ Len(users) < MaxUsers
                      /\ nextToken <= MaxTokens
                      /\ users' = Append(users, user)
                      /\ sessions' = putSession(sessions, nextToken, nextUserId)
                      /\ \E oks \in WriteOutcomes2 :
                            /\ usersFile' = writeFile(usersFile, users', oks[1])
                            /\ sessionsFile' = writeFile(sessionsFile, sessions', oks[2])
                            /\ faults' = faults + Failures(oks)
                      /\ nextToken' = nextToken + 1
                      /\ nextUserId' = nextUserId + 1
                      /\ res' = sendJson(201, [ message |-> "User registered successfully",
                                                token   |-> nextToken ])
                      /\ UNCHANGED running
  /\ UNCHANGED <<metrics, metricsFile, analyses, analysesFile, nextAnalysisId, now, boots>>

\* POST /api/login
handleLogin(body) ==
  /\ running
  /\ req' = Request("login", body)
  /\ LET parsed   == JSONparse(bodyOrEmptyObject(body))
         data     == parsed.value
         username == property(data, "username")
         password == property(data, "password")
         \* users.find(u => u.username === username)
         found    == {i \in 1..Len(users) : users[i].username = username.value}
         user     == users[CHOOSE i \in found : \A j \in found : i <= j]
     IN  IF ~parsed.ok
           THEN /\ res' = sendJson(400, [error |-> "Invalid JSON"])
                /\ UNCHANGED <<sessions, sessionsFile, faults, nextToken, running>>
           ELSE IF propertyThrows(data)
             THEN /\ uncaughtException
                  /\ UNCHANGED <<sessions, sessionsFile, faults, nextToken>>
             ELSE IF ~truthy(username) \/ ~truthy(password)
               THEN /\ res' = sendJson(400, [error |-> "Username and password required"])
                    /\ UNCHANGED <<sessions, sessionsFile, faults, nextToken, running>>
               ELSE IF \/ found = {}
                       \/ ~verifyPassword(password.value, user.salt, user.passwordHash)
                 THEN /\ res' = sendJson(401, [error |-> "Invalid credentials"])
                      /\ UNCHANGED <<sessions, sessionsFile, faults, nextToken, running>>
                 ELSE /\ nextToken <= MaxTokens
                      /\ sessions' = putSession(sessions, nextToken, user.id)
                      /\ \E ok \in WriteOutcomes :
                            /\ sessionsFile' = writeFile(sessionsFile, sessions', ok)
                            /\ faults' = IF ok THEN faults ELSE faults + 1
                      /\ nextToken' = nextToken + 1
                      /\ res' = sendJson(200, [token |-> nextToken])
                      /\ UNCHANGED running
  /\ UNCHANGED <<metrics, metricsFile, users, usersFile, analyses, analysesFile,
                 nextUserId, nextAnalysisId, now, boots>>

(***************************************************************************)
(* Stored analyses.                                                        *)
(***************************************************************************)
\* faulty variant: the owner filter is left out
analysesOf_everyOwner(userId) == analyses

\* analyses.filter(a => a.userId === userId)
analysesOf(userId) == LET own(a) == a.userId = userId IN SelectSeq(analyses, own)

\* faulty variant: analyses.findIndex(a => a.id === id)
findIndex_anyOwner(id, userId) ==
  LET found == {i \in 1..Len(analyses) : analyses[i].id = id}
  IN  IF found = {} THEN 0 ELSE CHOOSE i \in found : \A j \in found : i <= j

\* analyses.findIndex(a => a.id === id && a.userId === userId), 0 for -1
findIndex(id, userId) ==
  LET found == {i \in 1..Len(analyses) :
                  analyses[i].id = id /\ analyses[i].userId = userId}
  IN  IF found = {} THEN 0 ELSE CHOOSE i \in found : \A j \in found : i <= j

\* faulty variant: analyses.splice(idx)
splice_toEnd(a, idx) == SubSeq(a, 1, idx - 1)

\* analyses.splice(idx, 1)
splice(a, idx) == SubSeq(a, 1, idx - 1) \o SubSeq(a, idx + 1, Len(a))

\* GET /api/analysis/list
handleAnalysisList(token) ==
  /\ running
  /\ req' = AuthRequest("list", token, 0, EmptyBody)
  /\ \/ Unauthorized(token)
     \/ /\ getUserIdFromToken(token) # 0
        /\ res' = sendJson(200, [list |-> analysesOf(getUserIdFromToken(token))])
        /\ UNCHANGED <<sessions, sessionsFile, faults>>
  /\ UNCHANGED <<metrics, metricsFile, users, usersFile, analyses, analysesFile,
                 nextToken, nextUserId, nextAnalysisId, now, running, boots>>

\* faulty variant: the callback works on the counters read when the request
\* arrived
countersAtEnd_seen(seen) == seen

\* the counters the 'end' callback increments: the module-level metrics as
\* they are when the callback runs, whatever they were when the request
\* arrived
countersAtEnd(seen) == metrics

\* the 'end' callback of POST /api/analysis, for the user the token stood for
\* when the request arrived
createOnEnd(userId, seen, body, draw) ==
  LET parsed   == JSONparse(bodyOrEmptyObject(body))
      data     == parsed.value
      variant  == variantOf(draw)
      analysis == [ id          |-> nextAnalysisId,
                    userId      |-> userId,
                    timestamp   |-> now,
                    competitors |-> competitorsOf(data),
                    results     |-> resultsOf(competitorsOf(data)),
                    variant     |-> variant ]
  IN  IF ~parsed.ok
        THEN /\ res' = sendJson(400, [error |-> "Invalid JSON"])
             /\ UNCHANGED <<metrics, metricsFile, analyses, analysesFile,
                            nextAnalysisId, running, faults>>
        ELSE IF generateThrows(data)
          THEN /\ uncaughtException
               /\ UNCHANGED <<metrics, metricsFile, analyses, analysesFile,
                              nextAnalysisId, faults>>
          ELSE /\ metrics.variantA + metrics.variantB < MaxViews
               /\ nextAnalysisId <= MaxAnalyses
               /\ metrics' = recordView(countersAtEnd(seen), variant)
               /\ analyses' = Append(analyses, analysis)
               /\ \E oks \in WriteOutcomes2 :
                     /\ metricsFile' = writeFile(metricsFile, metrics', oks[1])
                     /\ analysesFile' = writeFile(analysesFile, analyses', oks[2])
                     /\ faults' = faults + Failures(oks)
               /\ nextAnalysisId' = nextAnalysisId + 1
               /\ res' = sendJson(201, analysis)
               /\ UNCHANGED running

\* POST /api/analysis, the body arriving at once
handleAnalysisCreate(token, body, draw) ==
  /\ running
  /\ req' = AuthRequest("create", token, 0, body)
  /\ \/ /\ Unauthorized(token)
        /\ UNCHANGED <<metrics, metricsFile, analyses, analysesFile,
                       nextAnalysisId, running>>
     \/ /\ getUserIdFromToken(token) # 0
        /\ UNCHANGED <<sessions, sessionsFile>>
        /\ createOnEnd(getUserIdFromToken(token), metrics, body, draw)
  /\ UNCHANGED <<users, usersFile, nextToken, nextUserId, now, boots>>

\* a sequence without its i-th element
removeAt(s, i) == [k \in 1..(Len(s) - 1) |-> IF k < i THEN s[k] ELSE s[k + 1]]

\* POST /api/analysis arrives: the token is checked and the listeners for
\* the body are registered
arriveAnalysisCreate(token) ==
  /\ running
  /\ Len(inflight) < MaxInFlight
  /\ req' = AuthRequest("create", token, 0, EmptyBody)
  /\ \/ /\ Unauthorized(token)
        /\ UNCHANGED inflight
     \/ /\ getUserIdFromToken(token) # 0
        /\ inflight' = Append(inflight, [ token  |-> token,
                                          userId |-> getUserIdFromToken(token),
                                          seen   |-> metrics ])
        /\ res' = NoResponse
        /\ UNCHANGED <<sessions, sessionsFile, faults>>
  /\ UNCHANGED <<metrics, metricsFile, users, usersFile, analyses, analysesFile,
                 nextToken, nextUserId, nextAnalysisId, now, running, boots, acked>>

\* the body of a POST /api/analysis in flight ends
endAnalysisCreate(i, body, draw) ==
  /\ running
  /\ i \in DOMAIN inflight
  /\ inflight' = removeAt(inflight, i)
  /\ req' = AuthRequest("create", inflight[i].token, 0, body)
  /\ createOnEnd(inflight[i].userId, inflight[i].seen, body, draw)
  /\ acked' = IF res'.status = 201 THEN [acked EXCEPT !.created = @ + 1] ELSE acked
  /\ UNCHANGED <<users, usersFile, sessions, sessionsFile,
                 nextToken, nextUserId, now, boots>>

\* GET /api/analysis/:id
handleAnalysisGet(token, id) ==
  /\ running
  /\ req' = AuthRequest("get", token, id, EmptyBody)
  /\ \/ Unauthorized(token)
     \/ /\ getUserIdFromToken(token) # 0
        /\ LET idx == findIndex(id, getUserIdFromToken(token))
           IN  res' = IF idx = 0
                        THEN sendJson(404, [error |-> "Analysis not found"])
                        ELSE sendJson(200, analyses[idx])
        /\ UNCHANGED <<sessions, sessionsFile, faults>>
  /\ UNCHANGED <<metrics, metricsFile, users, usersFile, analyses, analysesFile,
                 nextToken, nextUserId, nextAnalysisId, now, running, boots>>

\* faulty variant: deleting an analysis takes its view back
handleAnalysisDelete_takesViewBack(token, id) ==
  /\ running
  /\ req' = AuthRequest("delete", token, id, EmptyBody)
  /\ \/ /\ Unauthorized(token)
        /\ UNCHANGED <<analyses, analysesFile, metrics>>
     \/ /\ getUserIdFromToken(token) # 0
        /\ UNCHANGED <<sessions, sessionsFile>>
        /\ LET idx == findIndex(id, getUserIdFromToken(token))
           IN  IF idx = 0
                 THEN /\ res' = sendJson(404, [error |-> "Analysis not found"])
                      /\ UNCHANGED <<analyses, analysesFile, faults, metrics>>
                 ELSE /\ analyses' = splice(analyses, idx)
                      /\ metrics' = IF analyses[idx].variant = "A"
                                      THEN [metrics EXCEPT !.variantA = @ - 1]
                                      ELSE [metrics EXCEPT !.variantB = @ - 1]
                      /\ \E ok \in WriteOutcomes :
                            /\ analysesFile' = writeFile(analysesFile, analyses', ok)
                            /\ faults' = IF ok THEN faults ELSE faults + 1
                      /\ res' = [status |-> 204]
  /\ UNCHANGED <<metricsFile, users, usersFile,
                 nextToken, nextUserId, nextAnalysisId, now, running, boots>>

\* DELETE /api/analysis/:id
handleAnalysisDelete(token, id) ==
  /\ running
  /\ req' = AuthRequest("delete", token, id, EmptyBody)
  /\ \/ /\ Unauthorized(token)
        /\ UNCHANGED <<analyses, analysesFile>>
     \/ /\ getUserIdFromToken(token) # 0
        /\ UNCHANGED <<sessions, sessionsFile>>
        /\ LET idx == findIndex(id, getUserIdFromToken(token))
           IN  IF idx = 0
                 THEN /\ res' = sendJson(404, [error |-> "Analysis not found"])
                      /\ UNCHANGED <<analyses, analysesFile, faults>>
                 ELSE /\ analyses' = splice(analyses, idx)
                      /\ \E ok \in WriteOutcomes :
                            /\ analysesFile' = writeFile(analysesFile, analyses', ok)
                            /\ faults' = IF ok THEN faults ELSE faults + 1
                      /\ res' = [status |-> 204]
  /\ UNCHANGED <<metrics, metricsFile, users, usersFile,
                 nextToken, nextUserId, nextAnalysisId, now, running, boots>>

\* GET /api/metrics/user
handleMetricsUser(token) ==
  /\ running
  /\ req' = AuthRequest("metricsUser", token, 0, EmptyBody)
  /\ \/ Unauthorized(token)
     \/ /\ getUserIdFromToken(token) # 0
        /\ LET userAnalyses == analysesOf(getUserIdFromToken(token))
               isA(a) == a.variant = "A"
               isB(a) == a.variant = "B"
           IN  res' = sendJson(200,
                        [ analyses     |-> Len(userAnalyses),
                          variantA     |-> Len(SelectSeq(userAnalyses, isA)),
                          variantB     |-> Len(SelectSeq(userAnalyses, isB)),
                          conversionsA |-> metrics.conversionsA,
                          conversionsB |-> metrics.conversionsB ])
        /\ UNCHANGED <<sessions, sessionsFile, faults>>
  /\ UNCHANGED <<metrics, metricsFile, users, usersFile, analyses, analysesFile,
                 nextToken, nextUserId, nextAnalysisId, now, running, boots>>

(***************************************************************************)
(* The process is stopped (or has crashed) and is started again.           *)
(***************************************************************************)
\* the outcomes of the four writes of a start: rewriting a file with what was
\* just read from it changes nothing, creating a missing file can fail
StartOutcomes ==
  LET files == <<metricsFile, usersFile, sessionsFile, analysesFile>>
  IN  {oks \in [1..4 -> BOOLEAN] :
         /\ \A i \in 1..4 : files[i].exists => oks[i]
         /\ faults + Cardinality({i \in 1..4 : ~oks[i]}) <= MaxFaults}

\* the module-level initialisation: initMetrics, initUsers, initSessions,
\* initAnalyses (initMetrics writes only when it found no usable file)
boot ==
  /\ running' = TRUE
  /\ metrics' = initMetrics(metricsFile)
  /\ users' = readJson(usersFile, <<>>)
  /\ sessions' = readJson(sessionsFile, <<>>)
  /\ analyses' = readJson(analysesFile, <<>>)
  /\ req' = Request("start", EmptyBody)
  /\ res' = NoResponse
  /\ \E oks \in StartOutcomes :
        /\ metricsFile' = IF metricsFile.exists
                            THEN metricsFile
                            ELSE writeFile(metricsFile, metrics', oks[1])
        /\ usersFile' = writeFile(usersFile, users', oks[2])
        /\ sessionsFile' = writeFile(sessionsFile, sessions', oks[3])
        /\ analysesFile' = writeFile(analysesFile, analyses', oks[4])
        /\ faults' = faults + Cardinality({i \in 1..4 : ~oks[i]})
  /\ UNCHANGED <<now, nextToken, nextUserId, nextAnalysisId>>

Restart ==
  /\ boots < MaxRestarts
  /\ boots' = boots + 1
  /\ boot

\* the first start of the process
Start ==
  /\ ~running
  /\ req = NoRequest
  /\ boot
  /\ UNCHANGED boots

\* the number of clock steps that lead to time t
ticksOf(t) == (t \div (maxAge - 1)) + (t % (maxAge - 1))

\* time passes
Tick(step) ==
  /\ ticksOf(now) < MaxTicks
  /\ now' = now + step
  /\ UNCHANGED <<memoryVars, fileVars, nextToken, nextUserId, nextAnalysisId,
                 running, boots, faults, req, res>>

\* the anonymous API: variants, generation, conversions, the global
\* counters, and process restarts
Next ==
  \/ /\ \/ \E draw \in RandomDraws : handleVariant(draw)
        \/ \E body \in GenerationBodies, draw \in RandomDraws : handleGenerate(body, draw)
        \/ handleMetrics
        \/ \E body \in ConvertBodies : handleConvert(body)
        \/ Restart
     /\ UNCHANGED <<swotVars, inflightVars, clientVars>>

Spec == Init /\ [][Next]_vars

(***************************************************************************)
(* One account: a user registers, creates and deletes analyses, while      *)
(* anonymous callers use the public endpoints; the process stays up until  *)
(* an exception ends it.                                                   *)
(***************************************************************************)
\* Math.random() on either side of the threshold
BoundaryDraws == {49, 50}

OneAccountRegisterBodies == { Credentials(Alice, Password1) }

OneAccountAnalysisBodies ==
  { JsonBody(JObject([competitors |-> JArray(<< JObject([name |-> JString(<<>>)]) >>)])) }

\* the Authorization header carries the first token the server generates
OneAccountTokens == {1}

OneAccountGenerationBodies ==
  { JsonBody(JObject([competitors |-> JString(<<"x">>)])) }

OneAccountConvertBodies ==
  { JsonBody(JObject([variant |-> JString(<<"A">>)])) }

NextCounters ==
  \/ /\ \/ \E body \in OneAccountRegisterBodies, salt \in Salts : handleRegister(body, salt)
        \/ \E token \in OneAccountTokens, body \in OneAccountAnalysisBodies,
              draw \in BoundaryDraws : handleAnalysisCreate(token, body, draw)
        \/ \E token \in OneAccountTokens, id \in RequestIds : handleAnalysisDelete(token, id)
        \/ \E draw \in BoundaryDraws : handleVariant(draw)
        \/ \E body \in OneAccountGenerationBodies, draw \in BoundaryDraws :
              handleGenerate(body, draw)
        \/ \E body \in OneAccountConvertBodies : handleConvert(body)
     /\ UNCHANGED <<swotVars, inflightVars, clientVars>>

SpecCounters == Init /\ [][NextCounters]_vars

(***************************************************************************)
(* Two accounts: Alice and Bob register, and each creates, lists, reads    *)
(* and deletes analyses, with either token and with every analysis id.     *)
(***************************************************************************)
TwoAccountRegisterBodies == { Credentials(Alice, Password1), Credentials(Bob, Password1) }

\* the Authorization header carries the first or the second token the server
\* generates
TwoAccountTokens == {1, 2}

NextAccounts ==
  \/ /\ \/ \E body \in TwoAccountRegisterBodies, salt \in Salts : handleRegister(body, salt)
        \/ \E token \in TwoAccountTokens, body \in OneAccountAnalysisBodies,
              draw \in BoundaryDraws : handleAnalysisCreate(token, body, draw)
        \/ \E token \in TwoAccountTokens : handleAnalysisList(token)
        \/ \E token \in TwoAccountTokens, id \in RequestIds : handleAnalysisGet(token, id)
        \/ \E token \in TwoAccountTokens, id \in RequestIds : handleAnalysisDelete(token, id)
     /\ UNCHANGED <<swotVars, inflightVars, clientVars>>

SpecAccounts == Init /\ [][NextAccounts]_vars

(***************************************************************************)
(* Two accounts and the per-user summary: Alice and Bob register, create   *)
(* analyses and ask for their summary, while conversions are recorded.     *)
(***************************************************************************)
NextSummary ==
  \/ /\ \/ \E body \in TwoAccountRegisterBodies, salt \in Salts : handleRegister(body, salt)
        \/ \E token \in TwoAccountTokens, body \in OneAccountAnalysisBodies,
              draw \in BoundaryDraws : handleAnalysisCreate(token, body, draw)
        \/ \E token \in TwoAccountTokens : handleMetricsUser(token)
        \/ \E body \in OneAccountConvertBodies : handleConvert(body)
     /\ UNCHANGED <<swotVars, inflightVars, clientVars>>

SpecSummary == Init /\ [][NextSummary]_vars

(***************************************************************************)
(* Sessions over time: Alice registers and logs in, time passes, and       *)
(* authenticated calls arrive with no token, an issued one or an unknown   *)
(* one.                                                                    *)
(***************************************************************************)
SessionLoginBodies == { Credentials(Alice, Password1), Credentials(Alice, Password2) }

NextSessions ==
  \/ /\ \/ \E body \in OneAccountRegisterBodies, salt \in Salts : handleRegister(body, salt)
        \/ \E body \in SessionLoginBodies : handleLogin(body)
        \/ \E token \in HeaderTokens : handleAnalysisList(token)
        \/ \E token \in HeaderTokens, id \in RequestIds : handleAnalysisDelete(token, id)
        \/ \E step \in ClockSteps : Tick(step)
     /\ UNCHANGED <<swotVars, inflightVars, clientVars>>

SpecSessions == Init /\ [][NextSessions]_vars

(***************************************************************************)
(* Starts: the process is started in an empty directory, or next to a      *)
(* metrics.json of an earlier run (which may hold the view counters only), *)
(* serves variants and conversions, and is started again.                  *)
(***************************************************************************)
StartMetricsFiles ==
  { Absent,
    File([variantA |-> 1, variantB |-> 1]),
    File([variantA |-> 1, variantB |-> 0, conversionsA |-> 1, conversionsB |-> 0]) }

\* the directory before the first start
InitStart ==
  /\ metricsFile \in StartMetricsFiles
  /\ usersFile = (IF metricsFile.exists THEN File(<<>>) ELSE Absent)
  /\ sessionsFile = usersFile
  /\ analysesFile = usersFile
  /\ metrics = ZeroMetrics
  /\ users = <<>>
  /\ sessions = <<>>
  /\ analyses = <<>>
  /\ now = 0
  /\ nextToken = 1
  /\ nextUserId = 1
  /\ nextAnalysisId = 1
  /\ running = FALSE
  /\ boots = 0
  /\ faults = 0
  /\ req = NoRequest
  /\ res = NoResponse
  /\ SwotIdle
  /\ NoneInFlight
  /\ ClientIdle

NextStart ==
  \/ /\ \/ Start
        \/ \E draw \in BoundaryDraws : handleVariant(draw)
        \/ \E body \in OneAccountConvertBodies : handleConvert(body)
        \/ Restart
     /\ UNCHANGED <<swotVars, inflightVars, clientVars>>

SpecStart == InitStart /\ [][NextStart]_vars

(***************************************************************************)
(* Requests in flight: Alice registers; her POST /api/analysis requests    *)
(* arrive and their bodies end later, in any order, while conversions are  *)
(* recorded in between.  The event loop runs every callback it has queued. *)
(***************************************************************************)
\* POST /api/convert, arriving and ending while other requests are in flight
convertInBetween(body) ==
  /\ handleConvert(body)
  /\ acked' = IF res'.status = 200 THEN [acked EXCEPT !.converted = @ + 1] ELSE acked
  /\ UNCHANGED inflight

NextInFlight ==
  \/ /\ \/ /\ \E body \in OneAccountRegisterBodies, salt \in Salts :
                   handleRegister(body, salt)
           /\ UNCHANGED inflightVars
        \/ /\ \E token \in OneAccountTokens : arriveAnalysisCreate(token)
        \* what a request in flight turns out to carry: an analysis, or malformed JSON
        \/ /\ \E i \in DOMAIN inflight, body \in OneAccountAnalysisBodies \cup {InvalidBody},
                   draw \in BoundaryDraws :
                   endAnalysisCreate(i, body, draw)
        \/ /\ \E body \in OneAccountConvertBodies : convertInBetween(body)
     /\ UNCHANGED <<swotVars, clientVars>>

SpecInFlight == Init /\ [][NextInFlight]_vars /\ WF_vars(NextInFlight)

(***************************************************************************)
(* The clients: the web client, which keeps auth_token and swot_variant in *)
(* localStorage, and the integration script, which keeps the variant of    *)
(* the page it runs on in a closure.                                       *)
(***************************************************************************)
\* response.ok
ok(response) == response.status >= 200 /\ response.status < 300

\* faulty variant: the variant of the latest response always wins
chosenVariant_latest(stored, assigned) == assigned

\* let variant = localStorage.getItem('swot_variant');
\* if (!variant) variant = data.variant
chosenVariant(stored, assigned) == IF stored # "" THEN stored ELSE assigned

\* the form holds one competitor, name and description trimmed
ClientAnalysisBodies ==
  { JsonBody(JObject([competitors |->
      JArray(<< JObject([name |-> JString(<<"x">>), description |-> JString(<<>>)]) >>)])) }

\* the analysis form is submitted
ClientSubmit(body, draw) ==
  /\ IF localStorage.auth_token # 0
       THEN handleAnalysisCreate(localStorage.auth_token, body, draw)
       ELSE handleGenerate(body, draw)
  /\ IF ok(res')
       THEN LET variant == chosenVariant(localStorage.swot_variant, res'.body.variant)
            IN  /\ localStorage' = [localStorage EXCEPT !.swot_variant = variant]
                /\ shown' = variant
       ELSE UNCHANGED <<localStorage, shown>>
  /\ UNCHANGED dataVariant

\* the registration form, reachable while no token is stored, is submitted
ClientRegister(body, salt) ==
  /\ localStorage.auth_token = 0
  /\ handleRegister(body, salt)
  /\ localStorage' = IF ok(res')
                       THEN [localStorage EXCEPT !.auth_token = res'.body.token]
                       ELSE localStorage
  /\ UNCHANGED <<dataVariant, shown>>

\* the login form, reachable while no token is stored, is submitted
ClientLogin(body) ==
  /\ localStorage.auth_token = 0
  /\ handleLogin(body)
  /\ localStorage' = IF ok(res')
                       THEN [localStorage EXCEPT !.auth_token = res'.body.token]
                       ELSE localStorage
  /\ UNCHANGED <<dataVariant, shown>>

\* the Logout entry, shown while a token is stored, is clicked
ClientLogout ==
  /\ localStorage.auth_token # 0
  /\ localStorage' = [auth_token |-> 0, swot_variant |-> ""]
  /\ UNCHANGED <<serverVars, dataVariant, shown>>

\* a page carrying the integration script loads
ScriptLoad(draw) ==
  /\ handleVariant(draw)
  /\ dataVariant' = IF ok(res') THEN res'.body.variant ELSE ""
  /\ UNCHANGED <<localStorage, shown>>

\* window.recordConversion() is called on the page
ScriptConvert ==
  /\ dataVariant # ""
  /\ handleConvert(JsonBody(JObject([variant |-> JString(<<dataVariant>>)])))
  /\ UNCHANGED clientVars

NextClients ==
  \/ /\ \/ \E body \in ClientAnalysisBodies, draw \in BoundaryDraws : ClientSubmit(body, draw)
        \/ \E body \in {Credentials(Alice, Password1)}, salt \in Salts : ClientRegister(body, salt)
        \/ \E body \in {Credentials(Alice, Password1)} : ClientLogin(body)
        \/ ClientLogout
        \/ \E draw \in BoundaryDraws : ScriptLoad(draw)
        \/ ScriptConvert
     /\ UNCHANGED <<swotVars, inflightVars>>

SpecClients == Init /\ [][NextClients]_vars

(***************************************************************************)
(* Stored analyses: Alice registers, stores an analysis of two             *)
(* competitors, reads it back, deletes it; the process is restarted.       *)
(***************************************************************************)
NextStored ==
  \/ /\ \/ \E body \in OneAccountRegisterBodies, salt \in Salts : handleRegister(body, salt)
        \/ \E token \in OneAccountTokens, draw \in BoundaryDraws :
              handleAnalysisCreate(token,
                JsonBody(JObject([competitors |->
                  JArray(<< JObject([name |-> JString(<<"x">>)]),
                            JObject([name |-> JString(<<"y">>)]) >>)])),
                draw)
        \/ \E token \in OneAccountTokens : handleAnalysisList(token)
        \/ \E token \in OneAccountTokens, id \in RequestIds : handleAnalysisGet(token, id)
        \/ \E token \in OneAccountTokens, id \in RequestIds : handleAnalysisDelete(token, id)
        \/ Restart
     /\ UNCHANGED <<swotVars, inflightVars, clientVars>>

SpecStored == Init /\ [][NextStored]_vars

(***************************************************************************)
(* Registration and login with every kind of body, the tokens used on an   *)
(* authenticated call, and restarts.                                       *)
(***************************************************************************)
NextRegister ==
  \/ /\ \/ \E body \in RegisterBodies, salt \in Salts : handleRegister(body, salt)
        \/ \E body \in LoginBodies : handleLogin(body)
        \/ \E token \in HeaderTokens : handleAnalysisList(token)
        \/ Restart
     /\ UNCHANGED <<swotVars, inflightVars, clientVars>>

SpecRegister == Init /\ [][NextRegister]_vars

(***************************************************************************)
(* Every authenticated endpoint called with every kind of token: none, one *)
(* the server never issued, a live one, an expired one.                    *)
(***************************************************************************)
NextTokens ==
  \/ /\ \/ \E body \in OneAccountRegisterBodies, salt \in Salts : handleRegister(body, salt)
        \/ \E body \in OneAccountRegisterBodies : handleLogin(body)
        \/ \E token \in HeaderTokens : handleAnalysisList(token)
        \* Math.random() gives 0.49
        \/ \E token \in HeaderTokens, body \in OneAccountAnalysisBodies :
              handleAnalysisCreate(token, body, 49)
        \/ \E token \in HeaderTokens, id \in RequestIds : handleAnalysisGet(token, id)
        \/ \E token \in HeaderTokens, id \in RequestIds : handleAnalysisDelete(token, id)
        \/ \E token \in HeaderTokens : handleMetricsUser(token)
        \* the clock moves by the lifetime of a session between two requests
        \/ Tick(maxAge)
     \* the disk works: no file write fails in this workload
     /\ faults' = faults
     /\ UNCHANGED <<swotVars, inflightVars, clientVars>>

SpecTokens == Init /\ [][NextTokens]_vars

(***************************************************************************)
(* Static files.  A request target is the text after GET: a slash and up   *)
(* to MaxPath characters.  A path read by serveStatic is kept as the       *)
(* number of levels it climbs above the project directory and the segments *)
(* it then descends.                                                       *)
(***************************************************************************)
\* an origin-form target whose path does not begin with two slashes (such a
\* target names another host)
RequestTargets ==
  { <<"/">> \o rest : rest \in
      { r \in UNION {[1..n -> {".", "/", "\\", "x"}] : n \in 0..MaxPath} :
          r # <<>> => r[1] \notin {"/", "\\"} } }

\* s.split('/')
RECURSIVE splitSlash(_)
splitSlash(s) ==
  LET at == {i \in 1..Len(s) : s[i] = "/"}
      i  == CHOOSE k \in at : \A m \in at : k <= m
  IN  IF at = {}
        THEN <<s>>
        ELSE <<SubSeq(s, 1, i - 1)>> \o splitSlash(SubSeq(s, i + 1, Len(s)))

\* the URL parser shortens a path by its last segment
shorten(path) == IF path = <<>> THEN path ELSE SubSeq(path, 1, Len(path) - 1)

\* the path state of the URL parser: a "." segment is dropped, a ".."
\* segment removes the segment before it, and either leaves an empty
\* segment when it is the last one
RECURSIVE urlSegments(_, _)
urlSegments(segs, path) ==
  IF segs = <<>>
    THEN path
    ELSE LET seg  == Head(segs)
             last == Len(segs) = 1
         IN  IF seg = <<".", ".">>
               THEN urlSegments(Tail(segs),
                                IF last THEN Append(shorten(path), <<>>) ELSE shorten(path))
               ELSE IF seg = <<".">>
                 THEN urlSegments(Tail(segs), IF last THEN Append(path, <<>>) ELSE path)
                 ELSE urlSegments(Tail(segs), Append(path, seg))

\* segments.map(s => '/' + s).join('')
RECURSIVE serialized(_)
serialized(path) ==
  IF path = <<>> THEN <<>> ELSE <<"/">> \o Head(path) \o serialized(Tail(path))

\* new URL(req.url, `http://${req.headers.host}`).pathname; the URL parser
\* reads a backslash of an http URL as a slash
pathnameOf(target) ==
  LET slashed == [i \in 1..Len(target) |-> IF target[i] = "\\" THEN "/" ELSE target[i]]
  IN  serialized(urlSegments(Tail(splitSlash(slashed)), <<>>))

\* pathname.replace(/\.\.(\/|\\)/g, ''): one pass from left to right, the
\* text left behind is not scanned again
RECURSIVE removeTraversal(_)
removeTraversal(s) ==
  IF Len(s) < 3
    THEN s
    ELSE IF s[1] = "." /\ s[2] = "." /\ s[3] \in {"/", "\\"}
      THEN removeTraversal(SubSeq(s, 4, Len(s)))
      ELSE <<s[1]>> \o removeTraversal(Tail(s))

\* path.join(__dirname, pathname) on POSIX: empty and "." segments vanish, a
\* ".." segment removes the segment before it or, when none is left below
\* __dirname, climbs one level above it
RECURSIVE pathJoin(_, _)
pathJoin(segs, at) ==
  IF segs = <<>>
    THEN at
    ELSE LET seg == Head(segs)
         IN  IF seg = <<>> \/ seg = <<".">>
               THEN pathJoin(Tail(segs), at)
               ELSE IF seg = <<".", ".">>
                 THEN pathJoin(Tail(segs),
                               IF at.down = <<>>
                                 THEN [at EXCEPT !.up = @ + 1]
                                 ELSE [at EXCEPT !.down = shorten(@)])
                 ELSE pathJoin(Tail(segs), [at EXCEPT !.down = Append(@, seg)])

\* the filePath of serveStatic: '/' becomes '/index.html', and the join starts
\* at the project directory itself
filePathOf(target) ==
  LET pathname == IF pathnameOf(target) = <<"/">>
                    THEN <<"/", "index.html">>
                    ELSE pathnameOf(target)
      dirname  == [up |-> 0, down |-> <<>>]
  IN  pathJoin(splitSlash(removeTraversal(pathname)), dirname)

\* a GET for a static file has arrived
InitStatic ==
  /\ metrics = initMetrics(Absent)
  /\ metricsFile = File(ZeroMetrics)
  /\ users = <<>>
  /\ usersFile = File(<<>>)
  /\ sessions = <<>>
  /\ sessionsFile = File(<<>>)
  /\ analyses = <<>>
  /\ analysesFile = File(<<>>)
  /\ now = 0
  /\ nextToken = 1
  /\ nextUserId = 1
  /\ nextAnalysisId = 1
  /\ running = TRUE
  /\ boots = 0
  /\ faults = 0
  /\ req \in { [op |-> "static", token |-> 0, id |-> 0, body |-> EmptyBody, url |-> target] :
                 target \in RequestTargets }
  /\ res = NoResponse
  /\ SwotIdle
  /\ NoneInFlight
  /\ ClientIdle

\* serveStatic: the file is read and sent, or reading fails and 404 is sent
serveStatic ==
  /\ running
  /\ req.op = "static"
  /\ res = NoResponse
  /\ \E found \in BOOLEAN :
        res' = [status |-> IF found THEN 200 ELSE 404, read |-> filePathOf(req.url)]
  /\ UNCHANGED <<memoryVars, fileVars, now, nextToken, nextUserId, nextAnalysisId,
                 running, boots, faults, req>>
  /\ UNCHANGED <<swotVars, inflightVars, clientVars>>

SpecStatic == InitStatic /\ [][serveStatic]_vars

(***************************************************************************)
(* Deleting among several analyses: the process has started in a directory *)
(* where Alice and Bob each hold a session, Alice owns the first and the   *)
(* third stored analysis and Bob the second.                               *)
(***************************************************************************)
StoredAnalyses ==
  LET StoredAnalysis(id, userId, variant) ==
        [ id          |-> id,
          userId      |-> userId,
          timestamp   |-> 0,
          competitors |-> <<>>,
          results     |-> <<>>,
          variant     |-> variant ]
  IN  << StoredAnalysis(1, 1, "A"), StoredAnalysis(2, 2, "B"), StoredAnalysis(3, 1, "B") >>

StoredIds == {1, 2, 3}

InitDelete ==
  /\ metricsFile = File([variantA |-> 1, variantB |-> 2, conversionsA |-> 0, conversionsB |-> 0])
  /\ metrics = initMetrics(metricsFile)
  /\ usersFile = File(
       << [id |-> 1, username |-> Alice, salt |-> "5a17",
           passwordHash |-> hashPassword(Password1, "5a17").hash],
          [id |-> 2, username |-> Bob, salt |-> "5a17",
           passwordHash |-> hashPassword(Password1, "5a17").hash] >>)
  /\ users = readJson(usersFile, <<>>)
  /\ sessionsFile = File(<< [userId |-> 1, createdAt |-> 0], [userId |-> 2, createdAt |-> 0] >>)
  /\ sessions = readJson(sessionsFile, <<>>)
  /\ analysesFile = File(StoredAnalyses)
  /\ analyses = readJson(analysesFile, <<>>)
  /\ now = 0
  /\ nextToken = 3
  /\ nextUserId = 3
  /\ nextAnalysisId = 4
  /\ running = TRUE
  /\ boots = 0
  /\ faults = 0
  /\ req = NoRequest
  /\ res = NoResponse
  /\ SwotIdle
  /\ NoneInFlight
  /\ ClientIdle

NextDelete ==
  \/ /\ \/ \E token \in TwoAccountTokens, id \in StoredIds : handleAnalysisGet(token, id)
        \/ \E token \in TwoAccountTokens, id \in StoredIds : handleAnalysisDelete(token, id)
        \/ Restart
     /\ UNCHANGED <<swotVars, inflightVars, clientVars>>

SpecDelete == InitDelete /\ [][NextDelete]_vars

(***************************************************************************)
(* Views and stored analyses: Alice registers, stores and deletes an       *)
(* analysis, asks for her summary; the process is restarted.               *)
(***************************************************************************)
NextViews ==
  \/ /\ \/ \E body \in OneAccountRegisterBodies, salt \in Salts : handleRegister(body, salt)
        \/ \E token \in OneAccountTokens, body \in OneAccountAnalysisBodies,
              draw \in BoundaryDraws : handleAnalysisCreate(token, body, draw)
        \/ \E token \in OneAccountTokens, id \in RequestIds : handleAnalysisDelete(token, id)
        \/ \E token \in OneAccountTokens : handleMetricsUser(token)
        \/ Restart
     /\ UNCHANGED <<swotVars, inflightVars, clientVars>>

SpecViews == Init /\ [][NextViews]_vars

(***************************************************************************)
(* The extractor on its own: every input, then one application.            *)
(***************************************************************************)
InitSwot ==
  /\ InitServer
  /\ desc \in DescriptionInputs
  /\ name \in NameInputs
  /\ swot = NotAnalyzed
  /\ called = FALSE
  /\ NoneInFlight
  /\ ClientIdle

Analyze ==
  /\ ~called
  /\ swot' = analyzeDescription(desc, name)
  /\ called' = TRUE
  /\ UNCHANGED <<desc, name>>
  /\ UNCHANGED <<serverVars, inflightVars, clientVars>>

NextSwot == Analyze

SpecSwot == InitSwot /\ [][NextSwot]_vars

(***************************************************************************)
(* Properties of the counters.                                             *)
(***************************************************************************)
\* the body of a conversion request names variant v
SentVariantIs(body, v) ==
  /\ body.text = "json"
  /\ body.value.type = "object"
  /\ "variant" \in DOMAIN body.value.fields
  /\ body.value.fields.variant.type = "string"
  /\ body.value.fields.variant.value = <<v>>

\* the body of a conversion request parses, and its variant is neither "A"
\* nor "B" (another value, or none at all)
SentVariantInvalid(body) ==
  \/ body.text = "empty"
  \/ /\ body.text = "json"
     /\ body.value.type # "null"
     /\ ~SentVariantIs(body, "A")
     /\ ~SentVariantIs(body, "B")

C2_ConversionCountsItsVariantOnly ==
  [][ \A body \in ConvertBodies :
        handleConvert(body) =>
          /\ SentVariantIs(body, "A") => metrics' = [metrics EXCEPT !.conversionsA = @ + 1]
          /\ SentVariantIs(body, "B") => metrics' = [metrics EXCEPT !.conversionsB = @ + 1]
          /\ metrics'.variantA = metrics.variantA
          /\ metrics'.variantB = metrics.variantB ]_vars

\* a conversion for "A" has been counted while views had been counted too
C2_Witness ==
  /\ req.op = "convert"
  /\ SentVariantIs(req.body, "A")
  /\ res.status = 200
  /\ metrics.conversionsA = 1
  /\ metrics.variantA + metrics.variantB > 0

\* the step handles a request to one of the three operations that assign a
\* variant (every handler records its request in req)
VariantServingStep ==
  /\ req'.op \in {"variant", "generate", "create"}
  /\ <<req, res, metrics>>' # <<req, res, metrics>>

\* the response of the step carries variant v
Served(v) ==
  /\ res'.status \in {200, 201}
  /\ "variant" \in DOMAIN res'.body
  /\ res'.body.variant = v

\* C3: an operation that serves a variant increments the view counter of the
\* variant it returns by one and changes no other counter.
C3_ServingCountsOneView ==
  [][ VariantServingStep =>
        /\ Served("A") => metrics' = [metrics EXCEPT !.variantA = @ + 1]
        /\ Served("B") => metrics' = [metrics EXCEPT !.variantB = @ + 1]
        /\ (res'.status \in {200, 201}) => (Served("A") \/ Served("B")) ]_vars

\* three views, two of A and one of B, the last one served by POST /api/analysis
C3_Witness ==
  /\ req.op = "create"
  /\ res.status = 201
  /\ res.body.variant = "A"
  /\ metrics = [variantA |-> 2, variantB |-> 1, conversionsA |-> 0, conversionsB |-> 0]

\* C4: the four counters are natural numbers, and no step of a running
\* process lowers one of them, the deletion of an analysis included.
C4_CountersOnlyGrow ==
  /\ [](\A key \in MetricsKeys : metrics[key] \in Nat)
  /\ [][ (boots' = boots) =>
           \A key \in MetricsKeys : metrics'[key] >= metrics[key] ]_vars

\* an analysis has been deleted after views and a conversion were counted
C4_Witness ==
  /\ req.op = "delete"
  /\ res.status = 204
  /\ analyses = <<>>
  /\ metrics.variantA + metrics.variantB >= 2
  /\ metrics.conversionsA >= 1

\* C5 (as stated): whenever a request has completed, metrics.json holds
\* exactly the counters in memory.
C5_PersistedEqualsMemory ==
  (running /\ res.status \in {200, 201, 204}) => metricsFile = File(metrics)

\* C5 (amended): a request that changes a counter rewrites metrics.json with
\* the full counters in the same step, unless that write fails; a failed
\* write leaves the file as it was.
C5_WriteThroughUnlessWriteFails ==
  [][ (metrics' # metrics) =>
        /\ (faults' = faults) => metricsFile' = File(metrics')
        /\ metricsFile' \in {metricsFile, File(metrics')} ]_vars

\* after a failed write, a later counted view has brought the file back in
\* step with memory
C5_Witness ==
  /\ faults = 1
  /\ running
  /\ req.op \in {"variant", "generate", "create", "convert"}
  /\ res.status \in {200, 201}
  /\ metrics.variantA + metrics.variantB >= 2
  /\ metricsFile = File(metrics)

\* C6: a failed file write does not end the process and does not turn the
\* response into an error.
C6_WriteFailureSwallowed ==
  [][ (faults' > faults) => (running' /\ res'.status \in {200, 201, 204, 401}) ]_vars

\* C7: a generation request whose body parses as JSON is answered with 200,
\* a variant and one result per competitor of an array (none when competitors
\* is not an array), as long as no file write fails.
C7_MalformedInputNeverThrows ==
  (req.op = "generate" /\ JSONparse(req.body).ok /\ faults = 0) =>
    /\ running
    /\ res.status = 200
    /\ res.body.variant \in {"A", "B"}
    /\ Len(res.body.results) = Len(competitorsOf(req.body.value))

(***************************************************************************)
(* Properties of the extractor.  A "sentence of the description" is        *)
(* defined here from the text itself, not from split and trim: SentenceSpans *)
(* are the index pairs of the description that delimit the blank-stripped  *)
(* content of a maximal separator-free stretch.                            *)
(***************************************************************************)
SentenceSpans(d) ==
  { sp \in (1..Len(d)) \X (1..Len(d)) :
      /\ sp[1] <= sp[2]
      /\ d[sp[1]] \notin WhiteSpace \cup SentenceSeparators
      /\ d[sp[2]] \notin WhiteSpace \cup SentenceSeparators
      /\ \A k \in sp[1]..sp[2] : d[k] \notin SentenceSeparators
      /\ \A k \in 1..(sp[1] - 1) :
            (\A m \in k..(sp[1] - 1) : d[m] \notin SentenceSeparators)
               => d[k] \in WhiteSpace
      /\ \A k \in (sp[2] + 1)..Len(d) :
            (\A m \in (sp[2] + 1)..k : d[m] \notin SentenceSeparators)
               => d[k] \in WhiteSpace }

\* the text of a span, as the extractor reports it (a newline reads as a blank)
SpanText(d, sp) == replaceNewlines(SubSeq(d, sp[1], sp[2]))

PositiveSpans(d) == { sp \in SentenceSpans(d) : hasPositive(SpanText(d, sp)) }

NegativeSpans(d) == { sp \in SentenceSpans(d) : hasNegative(SpanText(d, sp)) }

\* C8: for every description and name, strengths and weaknesses are both
\* non-empty, and a list for which no sentence matched a keyword holds
\* exactly one entry, the fallback sentence of that list.
C8_ListsNeverEmpty ==
  called =>
    /\ Len(swot.strengths) >= 1
    /\ Len(swot.weaknesses) >= 1
    /\ (PositiveSpans(desc) = {}) => (swot.strengths = <<strengthsFallback(name)>>)
    /\ (NegativeSpans(desc) = {}) => (swot.weaknesses = <<weaknessesFallback(name)>>)

\* a description without any keyword has been analysed
C8_Witness ==
  /\ called
  /\ PositiveSpans(desc) = {}
  /\ NegativeSpans(desc) = {}
  /\ Len(desc) > 0

ExampleFirstSentence ==
  <<"T", "h", "i", "s", " ", "t", "o", "o", "l", " ", "i", "s", " ", "f", "a", "s", "t",
       " ", "a", "n", "d", " ", "a", "f", "f", "o", "r", "d", "a", "b", "l", "e">>

ExampleSecondSentence ==
  <<"H", "o", "w", "e", "v", "e", "r", " ", "i", "t", " ", "i", "s", " ", "e", "x", "p",
       "e", "n", "s", "i", "v", "e">>

NoKeyword(d) ==
  LET lower == toLowerCase(d)
  IN  /\ \A i \in 1..Len(positiveKeywords) : ~includes(lower, positiveKeywords[i])
      /\ \A i \in 1..Len(negativeKeywords) : ~includes(lower, negativeKeywords[i])

\* C11: for a description without any keyword, the empty one included,
\* strengths and weaknesses hold one entry each, the fallback sentence of
\* the list, and that entry mentions the given name.
C11_NoMatchGivesNamedFallbacks ==
  (called /\ NoKeyword(desc)) =>
    /\ Len(swot.strengths) = 1
    /\ swot.strengths[1] = name \o strengthsFallbackText
    /\ includes(swot.strengths[1], name)
    /\ Len(swot.weaknesses) = 1
    /\ swot.weaknesses[1] = name \o weaknessesFallbackText
    /\ includes(swot.weaknesses[1], name)

\* the empty description has been analysed for a named competitor
C11_Witness ==
  /\ called
  /\ desc = <<>>
  /\ name # UnnamedCompetitor

ClaimedPositiveKeywords ==
  { <<"f", "a", "s", "t">>,
    <<"e", "a", "s", "y">>,
    <<"p", "o", "p", "u", "l", "a", "r">>,
    <<"a", "f", "f", "o", "r", "d", "a", "b", "l", "e">>,
    <<"f", "l", "e", "x", "i", "b", "l", "e">>,
    <<"s", "c", "a", "l", "a", "b", "l", "e">>,
    <<"i", "n", "t", "u", "i", "t", "i", "v", "e">>,
    <<"e", "f", "f", "i", "c", "i", "e", "n", "t">>,
    <<"u", "s", "e", "r", "-", "f", "r", "i", "e", "n", "d", "l", "y">> }

\* the negative keywords as the claim spells them
ClaimedNegativeKeywords ==
  { <<"e", "x", "p", "e", "n", "s", "i", "v", "e">>,
    <<"s", "l", "o", "w">>,
    <<"b", "u", "g">>,
    <<"b", "u", "g", "s">>,
    <<"c", "o", "m", "p", "l", "i", "c", "a", "t", "e", "d">>,
    <<"c", "o", "m", "p", "l", "e", "x">>,
    <<"l", "i", "m", "i", "t", "e", "d">>,
    <<"d", "i", "f", "f", "i", "c", "u", "l", "t">>,
    <<"u", "n", "r", "e", "l", "i", "a", "b", "l", "e">> }

\* C13: a sentence is in strengths exactly when its lower-cased text holds
\* one of the claimed positive keywords, and in weaknesses exactly when it
\* holds one of the claimed negative keywords, each independently of the
\* other.
C13_ClassifiedByClaimedKeywords ==
  called =>
    \A sp \in SentenceSpans(desc) :
      LET sentence == SpanText(desc, sp)
          lower    == toLowerCase(sentence)
      IN  /\ (sentence \in Range(swot.strengths))
                <=> (\E k \in ClaimedPositiveKeywords : includes(lower, k))
          /\ (sentence \in Range(swot.weaknesses))
                <=> (\E k \in ClaimedNegativeKeywords : includes(lower, k))

(***************************************************************************)
(* Properties of the accounts.                                             *)
(***************************************************************************)
\* the user a token stands for at this moment, 0 for none
CallerOf(token) ==
  IF token \in DOMAIN sessions /\ now - sessions[token].createdAt < maxAge
    THEN sessions[token].userId
    ELSE 0

\* the positions of the stored analyses of an owner
OwnedBy(userId) == {i \in 1..Len(analyses) : analyses[i].userId = userId}

C20_NoAccessToOthersAnalyses ==
  [][ \A token \in TwoAccountTokens :
        /\ (handleAnalysisList(token) /\ res'.status = 200) =>
              \A i \in 1..Len(res'.body.list) :
                 res'.body.list[i].userId = CallerOf(token)
        /\ \A id \in RequestIds :
              ( /\ handleAnalysisGet(token, id) \/ handleAnalysisDelete(token, id)
                /\ CallerOf(token) # 0
                /\ \E i \in 1..Len(analyses) :
                      analyses[i].id = id /\ analyses[i].userId # CallerOf(token) )
              => /\ res'.status = 404
                 /\ analyses' = analyses
                 /\ analysesFile' = analysesFile ]_vars

\* a user asked to delete the analysis of another user
C20_Witness ==
  /\ req.op = "delete"
  /\ res.status = 404
  /\ CallerOf(req.token) # 0
  /\ \E i \in 1..Len(analyses) :
        analyses[i].id = req.id /\ analyses[i].userId # CallerOf(req.token)

(***************************************************************************)
(* Properties of the sessions.                                             *)
(***************************************************************************)
\* the token has an entry that is younger than the time to live
Live(token) ==
  /\ token \in DOMAIN sessions
  /\ now - sessions[token].createdAt < maxAge

\* the step is an authenticated call made with the token
AuthenticatedCall(token) ==
  \/ handleAnalysisList(token)
  \/ \E id \in RequestIds : handleAnalysisDelete(token, id)

\* once an issued token has no entry, it never has one again
RemovedForGood ==
  \A token \in 1..(MaxTokens + 1) :
     (token < nextToken /\ token \notin DOMAIN sessions) => token \notin DOMAIN sessions'

\* C16 (as stated): a token authenticates exactly when it has an entry
\* younger than maxAge; using it leaves its entry alone; the first call at or
\* after expiry removes the entry in memory and in sessions.json and is
\* answered as unauthenticated; a removed token never comes back.
C16_ExpiryRemovesEntryEverywhere ==
  /\ [][ \A token \in HeaderTokens :
           AuthenticatedCall(token) =>
             /\ (res'.status # 401) <=> Live(token)
             /\ Live(token) => (sessions' = sessions /\ sessionsFile' = sessionsFile)
             /\ (token \in DOMAIN sessions /\ ~Live(token)) =>
                   /\ token \notin DOMAIN sessions'
                   /\ sessionsFile' = File(sessions')
                   /\ res'.status = 401 ]_vars
  /\ [][RemovedForGood]_vars

\* C16 (amended): as stated, except that sessions.json holds the sessions
\* without the expired entry only when that write succeeds; when it fails
\* the file stays as it was and the entry is removed in memory alone.
C16_ExpiryRemovesEntry ==
  /\ [][ \A token \in HeaderTokens :
           AuthenticatedCall(token) =>
             /\ (res'.status # 401) <=> Live(token)
             /\ Live(token) => (sessions' = sessions /\ sessionsFile' = sessionsFile)
             /\ (token \in DOMAIN sessions /\ ~Live(token)) =>
                   /\ token \notin DOMAIN sessions'
                   /\ (faults' = faults) => sessionsFile' = File(sessions')
                   /\ (faults' # faults) => sessionsFile' = sessionsFile
                   /\ res'.status = 401 ]_vars
  /\ [][RemovedForGood]_vars

\* the first token was used after its expiry and is gone, while the second,
\* issued later, still has its entry
C16_Witness ==
  /\ req.op = "list"
  /\ req.token = 1
  /\ res.status = 401
  /\ now >= maxAge
  /\ DOMAIN sessions = {2}
  /\ sessionsFile = File(sessions)

(***************************************************************************)
(* Properties of the start.                                                *)
(***************************************************************************)
\* the counters a start loads from an existing metrics.json
Loaded(file) ==
  [key \in MetricsKeys |->
     IF key \in DOMAIN file.content THEN file.content[key] ELSE 0]

ExpectedVariant(draw) == IF draw < 50 THEN "A" ELSE "B"

\* C19: in every state, each of the three assigning operations answers
\* with "A" when the draw is below one half and with "B" otherwise,
\* whatever the counters, the stored analyses, the sessions or the caller.
C19_VariantByDrawAlone ==
  [][ \A draw \in BoundaryDraws :
        /\ (handleVariant(draw) /\ res'.status = 200)
              => res'.body.variant = ExpectedVariant(draw)
        /\ \A body \in OneAccountGenerationBodies :
              (handleGenerate(body, draw) /\ res'.status = 200)
                => res'.body.variant = ExpectedVariant(draw)
        /\ \A token \in OneAccountTokens, body \in OneAccountAnalysisBodies :
              (handleAnalysisCreate(token, body, draw) /\ res'.status = 201)
                => res'.body.variant = ExpectedVariant(draw) ]_vars

\* "B" was assigned to an authenticated caller after two assignments of "A"
C19_Witness ==
  /\ req.op = "create"
  /\ res.status = 201
  /\ res.body.variant = "B"
  /\ metrics.variantA = 2
  /\ metrics.variantB = 1

(***************************************************************************)
(* Properties of requests in flight.                                       *)
(***************************************************************************)
\* an acknowledged analysis, view or conversion is missing from memory, or,
\* every write having succeeded, from the files
LostUpdate ==
  \/ Len(analyses) < acked.created
  \/ metrics.variantA + metrics.variantB < acked.created
  \/ metrics.conversionsA + metrics.conversionsB < acked.converted
  \/ /\ faults = 0
     /\ \/ metricsFile # File(metrics)
        \/ analysesFile # File(analyses)

C21_GenerateSavesNothing ==
  [][ req'.op = "generate" =>
        /\ UNCHANGED authVars
        /\ metrics'.conversionsA = metrics.conversionsA
        /\ metrics'.conversionsB = metrics.conversionsB
        /\ res'.status = 200 =>
              /\ DOMAIN res'.body = {"variant", "results"}
              /\ res'.body.variant \in {"A", "B"}
              /\ metrics' = recordView(metrics, res'.body.variant)
              /\ metrics'.variantA + metrics'.variantB
                    = metrics.variantA + metrics.variantB + 1
        /\ res'.status = 400 => metrics' = metrics
    ]_vars

\* a generation was answered while a user, a session and an analysis were
\* stored
C21_Witness ==
  /\ req.op = "generate"
  /\ res.status = 200
  /\ Len(analyses) = 1
  /\ Len(users) = 1
  /\ DOMAIN sessions # {}

(***************************************************************************)
(* Properties of stored analyses.                                          *)
(***************************************************************************)
\* the analysis is among the stored ones
Stored(a, all) == \E i \in 1..Len(all) : all[i] = a

\* a successful POST /api/analysis appends one analysis of the caller, with
\* a fresh id, the variant of the response and of the counted view, and one
\* result per competitor in the order of the body
CreateStoresOne ==
  (req'.op = "create" /\ res'.status = 201) =>
    LET a           == res'.body
        competitors == competitorsOf(req'.body.value)
    IN  /\ analyses' = Append(analyses, a)
        /\ CallerOf(req'.token) # 0
        /\ a.userId = CallerOf(req'.token)
        /\ \A i \in 1..Len(analyses) : analyses[i].id # a.id
        /\ a.variant \in {"A", "B"}
        /\ metrics' = recordView(metrics, a.variant)
        /\ a.competitors = competitors
        /\ Len(a.results) = Len(competitors)
        /\ \A i \in 1..Len(competitors) :
              /\ a.results[i].name = nameOf(competitors[i]).value
              /\ a.results[i].swot =
                    analyzeDescription(descriptionOf(competitors[i]).value,
                                       nameOf(competitors[i]).value)

\* the owner reads a stored analysis by its id, and finds all of their own
\* in the list
OwnerRetrieves ==
  /\ (req'.op = "get" /\ CallerOf(req'.token) # 0) =>
        \A i \in OwnedBy(CallerOf(req'.token)) :
          analyses[i].id = req'.id => res' = sendJson(200, analyses[i])
  /\ (req'.op = "list" /\ CallerOf(req'.token) # 0) =>
        /\ res'.status = 200
        /\ \A i \in OwnedBy(CallerOf(req'.token)) : Stored(analyses[i], res'.body.list)

\* the owner deletes the analysis
DeletedByOwner(a) ==
  /\ req'.op = "delete"
  /\ res'.status = 204
  /\ req'.id = a.id
  /\ CallerOf(req'.token) = a.userId

\* the process starts again from a file the analysis never reached
LostAtStart(a) ==
  /\ req'.op = "start"
  /\ ~Stored(a, readJson(analysesFile, <<>>))

\* C22 (as stated): a successful POST /api/analysis appends exactly one
\* analysis of the caller with the variant returned and counted and one
\* result per competitor in order, and the owner can list and get it until
\* it is deleted.
C22_CreatedIsRetrievableUntilDeleted ==
  [][ /\ CreateStoresOne
      /\ OwnerRetrieves
      /\ \A i \in 1..Len(analyses) :
            ~Stored(analyses[i], analyses') => DeletedByOwner(analyses[i])
    ]_vars

\* C22 (amended): as stated, except that an analysis whose write to
\* analyses.json failed is also gone after a restart of the process.
C22_CreatedIsRetrievableWhileStored ==
  [][ /\ CreateStoresOne
      /\ OwnerRetrieves
      /\ \A i \in 1..Len(analyses) :
            ~Stored(analyses[i], analyses') =>
              DeletedByOwner(analyses[i]) \/ LostAtStart(analyses[i])
    ]_vars

\* the owner read an analysis of two competitors back after a restart
C22_Witness ==
  /\ req.op = "get"
  /\ res.status = 200
  /\ Len(res.body.results) = 2
  /\ res.body.results[1].name # res.body.results[2].name
  /\ boots >= 1

(***************************************************************************)
(* Properties of registration and login.                                   *)
(***************************************************************************)
\* the JSON value a register or login request carries
Sent(request) == JSONparse(bodyOrEmptyObject(request.body))

\* the value carries no usable entry under the key
Lacks(data, key) == data.type # "object" \/ ~truthy(property(data, key))

\* C23: no two users share a username; a register request that names an
\* existing username is answered 409 and changes neither users nor
\* sessions; a register request without username or password is answered
\* 400 and changes nothing.
C23_UsernamesStayUnique ==
  [][ req'.op = "register" =>
        LET data == Sent(req').value
        IN  /\ \A i, j \in 1..Len(users') :
                  users'[i].username = users'[j].username => i = j
            /\ (Sent(req').ok /\ (Lacks(data, "username") \/ Lacks(data, "password"))) =>
                  /\ res'.status = 400
                  /\ UNCHANGED <<memoryVars, fileVars, running>>
            /\ ( /\ Sent(req').ok
                 /\ ~Lacks(data, "username")
                 /\ ~Lacks(data, "password")
                 /\ userExists(property(data, "username").value) ) =>
                  /\ res'.status = 409
                  /\ UNCHANGED <<users, usersFile, sessions, sessionsFile>>
    ]_vars

\* the positions of the users with the username
Named(all, username) == {i \in 1..Len(all) : all[i].username = username}

\* the session entry names no stored user
Dangling(s, all, token) == \A i \in 1..Len(all) : all[i].id # s[token].userId

\* a successful register or login adds one entry, under a fresh token, for
\* the user the credentials are those of, and the token is valid at once
SessionForItsUser ==
  LET data     == Sent(req').value
      username == property(data, "username").value
      password == property(data, "password").value
      token    == res'.body.token
  IN  /\ (req'.op = "register" /\ res'.status = 201) =>
            /\ token \notin DOMAIN sessions
            /\ DOMAIN sessions' = DOMAIN sessions \cup {token}
            /\ \A t \in DOMAIN sessions : sessions'[t] = sessions[t]
            /\ Named(users, username) = {}
            /\ \E i \in Named(users', username) : sessions'[token].userId = users'[i].id
            /\ now' - sessions'[token].createdAt < maxAge
      /\ (req'.op = "login" /\ res'.status = 200) =>
            /\ token \notin DOMAIN sessions
            /\ DOMAIN sessions' = DOMAIN sessions \cup {token}
            /\ \A t \in DOMAIN sessions : sessions'[t] = sessions[t]
            /\ \E i \in Named(users, username) :
                  /\ sessions'[token].userId = users[i].id
                  /\ hashPassword(password, users[i].salt).hash = users[i].passwordHash
            /\ now' - sessions'[token].createdAt < maxAge

\* a failed register or login adds no entry; a login naming no user, or with
\* another password than the user's, fails with 401
FailureAddsNoSession ==
  LET data == Sent(req').value
  IN  /\ (req'.op = "register" /\ res'.status \in {400, 409}) =>
            UNCHANGED <<sessions, sessionsFile>>
      /\ (req'.op = "login" /\ res'.status \in {400, 401}) =>
            UNCHANGED <<sessions, sessionsFile>>
      /\ ( /\ req'.op = "login"
           /\ Sent(req').ok
           /\ ~Lacks(data, "username")
           /\ ~Lacks(data, "password")
           /\ \A i \in Named(users, property(data, "username").value) :
                 hashPassword(property(data, "password").value, users[i].salt).hash
                   # users[i].passwordHash ) =>
            res'.status = 401

\* C24 (as stated): every session entry maps its token to the id of an
\* existing user, the one whose successful register or login created it; a
\* failed register or login creates no entry.
C24_SessionsNameTheirUsers ==
  [][ /\ SessionForItsUser
      /\ FailureAddsNoSession
      /\ \A t \in DOMAIN sessions' : ~Dangling(sessions', users', t)
    ]_vars

\* C24 (amended): as stated, except that after a restart an entry can name
\* a user whose write to users.json failed and who is therefore gone.
C24_SessionsNameTheirUsersUnlessLost ==
  [][ /\ SessionForItsUser
      /\ FailureAddsNoSession
      /\ \A t \in DOMAIN sessions' :
            Dangling(sessions', users', t) =>
              \/ req'.op = "start" /\ req # req'
              \/ t \in DOMAIN sessions /\ Dangling(sessions, users, t)
    ]_vars

\* a login with the right password gave the user a second session
C24_Witness ==
  /\ req.op = "login"
  /\ res.status = 200
  /\ Cardinality(DOMAIN sessions) = 2
  /\ \A t \in DOMAIN sessions : sessions[t].userId = users[1].id

(***************************************************************************)
(* Properties of calls without a valid token.                              *)
(***************************************************************************)
AuthenticatedEndpoints == {"list", "create", "get", "delete", "metricsUser"}

\* the step handles a request to one of the endpoints: the clock stands
\* still while a request is handled, and moves between requests
Called(endpoints) == req'.op \in endpoints /\ now' = now

\* the token has an entry, seven days old or older
Expired(token) ==
  /\ token \in DOMAIN sessions
  /\ now - sessions[token].createdAt >= maxAge

\* C25: an authenticated endpoint called with no token, an unknown token or
\* an expired token answers 401 and leaves users, analyses and counters as
\* they were; of the sessions only the entry of an expired token goes.
C25_NoTokenNoEffect ==
  [][ (Called(AuthenticatedEndpoints) /\ CallerOf(req'.token) = 0) =>
        /\ res'.status = 401
        /\ UNCHANGED <<metrics, users, analyses, metricsFile, usersFile, analysesFile,
                       running>>
        /\ IF Expired(req'.token)
             THEN /\ DOMAIN sessions' = DOMAIN sessions \ {req'.token}
                  /\ \A t \in DOMAIN sessions' : sessions'[t] = sessions[t]
             ELSE UNCHANGED <<sessions, sessionsFile>>
    ]_vars

\* an expired token was refused on POST /api/analysis and lost its entry
\* while a later session and a stored analysis stayed
C25_Witness ==
  /\ req.op = "create"
  /\ res.status = 401
  /\ req.token # 0
  /\ req.token < nextToken
  /\ req.token \notin DOMAIN sessions
  /\ DOMAIN sessions # {}
  /\ Len(analyses) >= 1

(***************************************************************************)
(* Properties of the answers of POST /api/convert.                         *)
(***************************************************************************)
\* C26: POST /api/convert answers 400 only when the body is not valid JSON,
\* and then the four counters are as before in memory and in metrics.json;
\* when it answers 200 the body is the updated counters.
C26_ConvertRejectsOnlyBadJson ==
  [][ \A body \in ConvertBodies :
        handleConvert(body) =>
          /\ res'.status = 400 =>
                /\ ~JSONparse(bodyOrEmptyObject(body)).ok
                /\ metrics' = metrics
                /\ metricsFile' = metricsFile
          /\ res'.status = 200 => res'.body = metrics'
    ]_vars

(***************************************************************************)
(* Properties of static file serving.                                      *)
(***************************************************************************)
\* C27: whatever the request path, the file serveStatic reads lies inside
\* the project directory.
C27_StaticStaysInRoot ==
  (req.op = "static" /\ res.status # 0) => res.read.up = 0

(***************************************************************************)
(* Properties of deletion.                                                 *)
(***************************************************************************)
\* the ids of the stored analyses
StoredIdsOf(all) == {all[i].id : i \in 1..Len(all)}

\* the analyses with another id, in their order
Others(all, id) == LET other(a) == a.id # id IN SelectSeq(all, other)

\* the id was given to an analysis that is no longer stored
Gone(id) == id < nextAnalysisId /\ id \notin StoredIdsOf(analyses)

\* a DELETE answered 204 removes the caller's analysis with the id and
\* nothing else
DeleteRemovesOne ==
  (req'.op = "delete" /\ res'.status = 204) =>
    /\ \E i \in 1..Len(analyses) :
          /\ analyses[i].id = req'.id
          /\ analyses[i].userId = CallerOf(req'.token)
    /\ Len(analyses') = Len(analyses) - 1
    /\ analyses' = Others(analyses, req'.id)
    /\ UNCHANGED <<metrics, metricsFile, users, usersFile, sessions, sessionsFile>>

\* GET and DELETE by an authenticated caller of an id that is gone are
\* answered 404
GoneIsNotFound ==
  (req'.op \in {"get", "delete"} /\ CallerOf(req'.token) # 0 /\ Gone(req'.id)) =>
    res'.status = 404

\* C28 (as stated): a DELETE answered 204 removes exactly the caller's
\* analysis with that id and leaves the other analyses, their order, the
\* counters, users and sessions as they were; afterwards GET and DELETE of
\* the id are answered 404.
C28_DeletedStaysDeleted ==
  [][ /\ DeleteRemovesOne
      /\ GoneIsNotFound
      /\ \A id \in StoredIds : Gone(id) => Gone(id)'
    ]_vars

\* C28 (amended): as stated, except that an analysis whose removal did not
\* reach analyses.json is stored again after a restart of the process.
C28_DeletedStaysDeletedWhileRunning ==
  [][ /\ DeleteRemovesOne
      /\ GoneIsNotFound
      /\ \A id \in StoredIds :
            Gone(id) =>
              \/ Gone(id)'
              \/ /\ req'.op = "start"
                 /\ id \in StoredIdsOf(readJson(analysesFile, <<>>))
    ]_vars

\* the owner of the second of three analyses deleted it, the first and the
\* third stayed, and a GET of its id was answered 404
C28_Witness ==
  /\ req.op = "get"
  /\ res.status = 404
  /\ req.id = 2
  /\ CallerOf(req.token) = 2
  /\ analyses = << StoredAnalyses[1], StoredAnalyses[3] >>

(***************************************************************************)
(* Properties relating views and stored analyses.                          *)
(***************************************************************************)
\* the number of stored analyses with the variant
StoredWith(v) == Cardinality({i \in 1..Len(analyses) : analyses[i].variant = v})

\* each view counter is at least the number of stored analyses of its variant
ViewsCoverAnalyses ==
  /\ metrics.variantA >= StoredWith("A")
  /\ metrics.variantB >= StoredWith("B")

\* the summary last sent counts as many analyses as it counts variants
SummaryAddsUp(request, response) ==
  (request.op = "metricsUser" /\ response.status = 200) =>
    response.body.analyses = response.body.variantA + response.body.variantB

\* C29 (as stated): in every reachable state each view counter is at least
\* the number of stored analyses of its variant, and a summary counts as
\* many analyses as its variantA and variantB together.
C29_ViewsCoverStoredAnalyses ==
  /\ ViewsCoverAnalyses
  /\ SummaryAddsUp(req, res)

\* C29 (amended): no request makes a view counter fall below the number of
\* stored analyses of its variant, and as long as no file write has failed
\* no restart does either; a summary counts as many analyses as its
\* variantA and variantB together.
C29_ViewsCoverStoredAnalysesWhileRunning ==
  [][ /\ (ViewsCoverAnalyses /\ req'.op # "start") => ViewsCoverAnalyses'
      /\ faults' = 0 => ViewsCoverAnalyses'
      /\ SummaryAddsUp(req', res')
    ]_vars

\* a summary was sent that counts the one stored analysis, of variant B,
\* while one view of B is counted
C29_Witness ==
  /\ req.op = "metricsUser"
  /\ res.status = 200
  /\ res.body.analyses = 1
  /\ res.body.variantB = 1
  /\ metrics.variantB = 1
  /\ StoredWith("B") = 1

(***************************************************************************)
(* Properties of what the web client renders.                              *)
(***************************************************************************)
\* C30: when a submission of the web client is answered, the layout the
\* client renders is the variant of the response, the one whose view the
\* server counted for the request.
C30_RendersTheCountedVariant ==
  [][ (req'.op \in {"generate", "create"} /\ ok(res') /\ metrics' # metrics) =>
        /\ shown' = res'.body.variant
        /\ metrics' = recordView(metrics, shown')
    ]_vars
====
